---- MODULE Spec2Model ----
(***************************************************************************)
(* Signal analysis engine of the observability agent: the diagnosis        *)
(* classifier and severity scorer and the cross-service correlator         *)
(* (src/src/tools/diagnosis.ts), the temporal pattern detector             *)
(* (src/src/core/helpers/temporal.ts), the outbox health and usage anomaly *)
(* tools (src/src/core/tools/openmeter.ts), the Sentry webhook server with *)
(* its auto-resolve decision (src/src/auto-resolve.ts), the postgres pool  *)
(* (src/src/core/helpers/postgres.ts) and the configuration loader         *)
(* (src/src/core/config/defaults.ts).                                      *)
(*                                                                         *)
(* JavaScript strings that the code searches (title, culprit, stack lines, *)
(* keywords) are sequences of one-character strings, so that toLowerCase   *)
(* and String.prototype.includes are computed character by character.      *)
(* Strings the code only copies (descriptions, labels) are TLA+ strings.   *)
(* Instants are milliseconds counted from a fixed origin; the time of a    *)
(* date string that does not parse is NaN. A tool handler is an action up  *)
(* to its first await that suspends and one action per promise it awaits. *)
(***************************************************************************)
EXTENDS Integers, Sequences, FiniteSets, TLC

VARIABLES
    config,      \* the loaded AgentConfig: diagnosisPatterns, knownBugs, services, sentry, metering
    phase,       \* "idle" while the client holds no reply, "correlating" while
                 \* cross_correlate awaits a batch, "replied" once a handler returned
                 \* and until the client has read what it returned
    input,       \* the DiagnosisInput of the last buildDiagnosis call
    now,         \* Date.now() read by the last call
    diagnosis,   \* the object the last buildDiagnosis call returned
    timestamps,  \* the timestamp list of the last detectTemporalPattern call
    verdict,     \* the pattern the last detectTemporalPattern call returned
    request,     \* traceId and runId of the cross_correlate call
    queries,     \* its queries array
    cursor,      \* its loop variable i: the queries before it belong to earlier batches
    fetches,     \* per query, the state of its sentryFetch call and the issues it returned
    results,     \* its results array
    reply,       \* what the handler of the last tool call returned
    database,    \* the outbox table as the queries of openmeter_outbox_health found it
    health,      \* what the openmeter_outbox_health call returned
    usage,       \* the metering table and the threshold of the usage anomaly call
    report,      \* what the usage anomaly call returned
    env,         \* process.env: the variables the code reads
    secret,      \* the webhook secret startWebhookServer settled on
    wallClock,   \* Date.now() of the webhook server
    limiter,     \* RateLimiter.records
    deliveries,  \* the POST /webhooks/sentry requests: where each handler stands
    resolved,    \* the issues resolveIssue resolved at Sentry, with the instant
    calls,       \* the buildDiagnosis calls made so far: arguments and result
    heap,        \* the objects and arrays of the buildDiagnosis calls, by address
    pgPool,      \* _pgPool of the postgres helper: 0 for null, else the pool
    pools,       \* the number of pools constructed by new Pool(...)
    callers,     \* the getPgPool calls: where each stands and what it returned
    cachedConfig, \* _config of the configuration loader
    allocated,   \* the number of objects deepMerge has created for loadConfig
    files,       \* the configuration files on disk: per path, whether it exists and its text
    lastCall,    \* the last call of loadConfig, getConfig or resetConfig and its outcome
    lookups      \* the tool calls the server handles at a time: per call the tool
                 \* and the promises its handler awaits

vars == <<config, phase, input, now, diagnosis, timestamps, verdict,
          request, queries, cursor, fetches, results, reply, database, health,
          usage, report, env, secret, wallClock, limiter, deliveries, resolved,
          calls, heap, pgPool, pools, callers, cachedConfig, allocated, files, lastCall,
          lookups>>

diagnosisVars == <<input, now, diagnosis, timestamps, verdict>>

correlateVars == <<request, queries, cursor, fetches, results, reply>>

usageVars == <<usage, report>>

webhookVars == <<env, secret, wallClock, limiter, deliveries, resolved>>

poolVars == <<pgPool, pools, callers>>

loaderVars == <<cachedConfig, allocated, files, lastCall>>

outboxVars == <<database, health>>

-----------------------------------------------------------------------------
(* Bounds of the model *)

\* longest diagnosisPatterns list of a configuration
MaxPatterns == 2

\* longest knownBugs list of a configuration
MaxBugs == 2

\* longest timestamp series built from the grid of instants
MaxPoints == 6

\* longest series built from timestamps that parse and that do not
MaxMixed == 4

\* webhook requests the server handles at the same time
MaxDeliveries == 2

\* buildDiagnosis calls made one after another on the same configuration
MaxCalls == 2

\* tool calls that ask for the postgres pool at the same time
MaxCallers == 3

\* tool calls the server handles at the same time
MaxLookups == 2

\* steps of the clock of the webhook server, of half an hour each
MaxTicks == 2

\* objects deepMerge may create for loadConfig before the process ends
MaxObjects == 3

-----------------------------------------------------------------------------
(* JavaScript string primitives *)

UpperChars == <<"A", "B", "C", "D", "E", "F", "G", "H", "I", "J", "K", "L", "M",
                "N", "O", "P", "Q", "R", "S", "T", "U", "V", "W", "X", "Y", "Z">>

LowerChars == <<"a", "b", "c", "d", "e", "f", "g", "h", "i", "j", "k", "l", "m",
                "n", "o", "p", "q", "r", "s", "t", "u", "v", "w", "x", "y", "z">>

toLowerChar(c) ==
    IF \E i \in DOMAIN UpperChars : UpperChars[i] = c
    THEN LowerChars[CHOOSE i \in DOMAIN UpperChars : UpperChars[i] = c]
    ELSE c

\* String.prototype.toLowerCase
toLowerCase(s) == [i \in 1..Len(s) |-> toLowerChar(s[i])]

\* String.prototype.includes: kw occurs in s as a contiguous substring
\* (the empty string occurs in every string)
includes(s, kw) ==
    \E i \in 0..(Len(s) - Len(kw)) : SubSeq(s, i + 1, i + Len(kw)) = kw

\* Array.prototype.join
RECURSIVE join(_, _)
join(lines, sep) ==
    IF lines = <<>> THEN <<>>
    ELSE IF Len(lines) = 1 THEN lines[1]
    ELSE lines[1] \o sep \o join(Tail(lines), sep)

\* String.prototype.toUpperCase on the four severity names
toUpperCase(severity) ==
    CASE severity = "critical" -> "CRITICAL"
      [] severity = "high" -> "HIGH"
      [] severity = "medium" -> "MEDIUM"
      [] severity = "low" -> "LOW"

\* new Date(s).getTime(): a date string is either an instant or unparsable,
\* and an unparsable one gives NaN
getTime(date) == [nan |-> ~date.valid, ms |-> IF date.valid THEN date.ms ELSE 0]

-----------------------------------------------------------------------------
(* Configurations (config.diagnosisPatterns, config.knownBugs) *)

\* the first keyword is written with an upper-case letter
BillingPattern ==
    [category |-> "billing_error",
     keywords |-> << <<"S", "t", "r", "i", "p", "e">>, <<"p", "a", "y">> >>,
     rootCause |-> "Payment provider rejected the charge",
     suggestions |-> << [action |-> "check_billing", description |-> <<"Check the payment provider dashboard">>, confidence |-> "high", command |-> "stripe logs tail"],
                        [action |-> "retry_charge", description |-> <<"Retry the charge">>, confidence |-> "low"] >>,
     relatedPatterns |-> <<"Card declined", "Webhook replay">>]

SlowUpstreamPattern ==
    [category |-> "upstream_slow",
     keywords |-> << <<"t", "i", "m", "e", "o", "u", "t">> >>,
     rootCause |-> "Upstream model provider is slow",
     suggestions |-> << [action |-> "switch_provider", description |-> <<"Fail over to the secondary provider">>, confidence |-> "medium"] >>,
     relatedPatterns |-> <<"Provider brownout">>]

\* an operator pattern that names the generic category
GenericPattern ==
    [category |-> "application_error",
     keywords |-> << <<"b", "o", "o", "m">> >>,
     rootCause |-> "Unhandled exception in a request handler",
     suggestions |-> << [action |-> "add_handler", description |-> <<"Wrap the handler in an error boundary">>, confidence |-> "medium"] >>,
     relatedPatterns |-> <<"Missing try/catch">>]

PatternPool == {BillingPattern, SlowUpstreamPattern, GenericPattern}

StreamLeakBug ==
    [id |-> "BUG-1", title |-> "Stream not closed", keywords |-> << <<"l", "e", "a", "k">> >>,
     description |-> "Response streams leak on abort", fix |-> "close the stream in finally", fixed |-> TRUE]

RefundBug ==
    [id |-> "BUG-2", title |-> "Double refund", keywords |-> << <<"r", "e", "f", "u", "n", "d">>, <<"p", "a", "y">> >>,
     description |-> "Refund webhook handled twice", fix |-> "add an idempotency key", fixed |-> FALSE]

BugPool == {StreamLeakBug, RefundBug}

Services ==
    [name \in {"api"} |-> [repo |-> "org/api", runtime |-> "node", framework |-> "express", sentryProject |-> "api"]]

SeqsUpTo(S, n) == UNION {[1..k -> S] : k \in 0..n}

\* DEFAULT_CONFIG.sentry with one project
OneProject == [defaultOrg |-> "", projects |-> <<"api">>]

\* DEFAULT_CONFIG.metering
DefaultMetering ==
    [outboxTable |-> "openmeter_event_ledger", deadLetterThreshold |-> 10, queueDepthThreshold |-> 500]

Configs ==
    {[diagnosisPatterns |-> ps, knownBugs |-> bs, services |-> Services, sentry |-> OneProject,
      metering |-> DefaultMetering] :
        ps \in SeqsUpTo(PatternPool, MaxPatterns), bs \in SeqsUpTo(BugPool, MaxBugs)}

-----------------------------------------------------------------------------
(* buildDiagnosis: the diagnosis engine *)

\* the accumulator before any matching: category, rootCause, suggestions, relatedPatterns
initialDiagnosis(inp) ==
    [category |-> "application_error",
     rootCause |-> <<"Application error in ", IF inp.culprit # <<>> THEN inp.culprit ELSE <<"u", "n", "k", "n", "o", "w", "n", " ", "l", "o", "c", "a", "t", "i", "o", "n">>>>,
     suggestions |-> <<>>,
     relatedPatterns |-> <<>>]

\* pattern.keywords.some(kw => title.includes(kw) || culprit.includes(kw) || stack.includes(kw))
patternMatches(pattern, title, culprit, stack) ==
    \E k \in DOMAIN pattern.keywords :
        \/ includes(title, pattern.keywords[k])
        \/ includes(culprit, pattern.keywords[k])
        \/ includes(stack, pattern.keywords[k])

\* the loop over config.diagnosisPatterns, left at the first pattern that matches
RECURSIVE applyConfigPatterns(_, _, _, _, _)
applyConfigPatterns(patterns, title, culprit, stack, acc) ==
    IF patterns = <<>> THEN acc
    ELSE IF patternMatches(Head(patterns), title, culprit, stack)
         THEN [category |-> Head(patterns).category,
               rootCause |-> <<Head(patterns).rootCause>>,
               suggestions |-> acc.suggestions \o Head(patterns).suggestions,
               relatedPatterns |-> acc.relatedPatterns \o Head(patterns).relatedPatterns]
         ELSE applyConfigPatterns(Tail(patterns), title, culprit, stack, acc)

\* the if / else-if chain of the built-in keyword families, tried on the title
builtInChain(acc, title) ==
    IF \/ includes(title, <<"f", "e", "t", "c", "h", " ", "f", "a", "i", "l", "e", "d">>) \/ includes(title, <<"e", "c", "o", "n", "n", "r", "e", "f", "u", "s", "e", "d">>)
            \/ includes(title, <<"e", "n", "o", "t", "f", "o", "u", "n", "d">>) \/ includes(title, <<"e", "c", "o", "n", "n", "r", "e", "s", "e", "t">>)
            \/ includes(title, <<"n", "e", "t", "w", "o", "r", "k">>)
    THEN [category |-> "network_error",
          rootCause |-> <<"External service unreachable or network issue">>,
          suggestions |-> acc.suggestions \o
              << [action |-> "check_provider", description |-> <<"Check upstream provider health">>, confidence |-> "high"],
                 [action |-> "add_retry", description |-> <<"Add retry with exponential backoff">>, confidence |-> "medium"],
                 [action |-> "add_circuit_breaker", description |-> <<"Implement circuit breaker">>, confidence |-> "medium"] >>,
          relatedPatterns |-> acc.relatedPatterns \o <<"Provider outage", "DNS failure", "Connection pool exhaustion">>]
    ELSE IF \/ includes(title, <<"t", "i", "m", "e", "o", "u", "t">>) \/ includes(title, <<"a", "b", "o", "r", "t", "e", "r", "r", "o", "r">>)
            \/ includes(title, <<"a", "b", "o", "r", "t">>) \/ includes(title, <<"d", "e", "a", "d", "l", "i", "n", "e">>)
    THEN [category |-> "timeout",
          rootCause |-> <<"Operation exceeded time limit">>,
          suggestions |-> acc.suggestions \o
              << [action |-> "use_streaming", description |-> <<"Switch to streaming for long operations">>, confidence |-> "high"],
                 [action |-> "check_pool", description |-> <<"Check connection pool utilization">>, confidence |-> "medium"],
                 [action |-> "review_timeout", description |-> <<"Review timeout values">>, confidence |-> "medium"] >>,
          relatedPatterns |-> acc.relatedPatterns \o <<"Slow response", "Pool exhaustion", "Resource contention">>]
    ELSE IF \/ includes(title, <<"u", "n", "a", "u", "t", "h", "o", "r", "i", "z", "e", "d">>) \/ includes(title, <<"4", "0", "1">>)
            \/ includes(title, <<"4", "0", "3">>) \/ includes(title, <<"f", "o", "r", "b", "i", "d", "d", "e", "n">>)
            \/ includes(title, <<"a", "u", "t", "h">>)
    THEN [category |-> "auth_error",
          rootCause |-> <<"Authentication or authorization failure">>,
          suggestions |-> acc.suggestions \o
              << [action |-> "rotate_keys", description |-> <<"Check if API keys have expired">>, confidence |-> "high"],
                 [action |-> "check_config", description |-> <<"Verify auth configuration">>, confidence |-> "high"] >>,
          relatedPatterns |-> acc.relatedPatterns \o <<"Key rotation", "Tenant misconfiguration", "CORS">>]
    ELSE IF \/ includes(title, <<"r", "a", "t", "e">>) \/ includes(title, <<"4", "2", "9">>)
            \/ includes(title, <<"q", "u", "o", "t", "a">>) \/ includes(title, <<"t", "o", "o", " ", "m", "a", "n", "y">>)
    THEN [category |-> "rate_limit",
          rootCause |-> <<"Rate limit or quota exceeded">>,
          suggestions |-> acc.suggestions \o
              << [action |-> "check_quotas", description |-> <<"Review quota/rate limit settings">>, confidence |-> "high"],
                 [action |-> "add_queuing", description |-> <<"Add request queuing">>, confidence |-> "medium"] >>,
          relatedPatterns |-> acc.relatedPatterns \o <<"Provider rate limit", "Quota exceeded", "Burst traffic">>]
    ELSE IF \/ includes(title, <<"d", "a", "t", "a", "b", "a", "s", "e">>) \/ includes(title, <<"p", "o", "s", "t", "g", "r", "e", "s">>)
            \/ includes(title, <<"u", "n", "i", "q", "u", "e", " ", "c", "o", "n", "s", "t", "r", "a", "i", "n", "t">>) \/ includes(title, <<"d", "e", "a", "d", "l", "o", "c", "k">>)
            \/ includes(title, <<"c", "o", "n", "n", "e", "c", "t", "i", "o", "n">>)
    THEN [category |-> "database_error",
          rootCause |-> <<"Database connectivity or query issue">>,
          suggestions |-> acc.suggestions \o
              << [action |-> "check_db", description |-> <<"Verify database connectivity">>, confidence |-> "high"],
                 [action |-> "check_pool", description |-> <<"Review connection pool config">>, confidence |-> "medium"],
                 [action |-> "check_migrations", description |-> <<"Ensure migrations are applied">>, confidence |-> "medium"] >>,
          relatedPatterns |-> acc.relatedPatterns \o <<"Pool exhaustion", "Missing migration", "Lock contention">>]
    ELSE IF \/ includes(title, <<"v", "a", "l", "i", "d", "a", "t", "i", "o", "n">>) \/ includes(title, <<"z", "o", "d">>)
            \/ includes(title, <<"p", "a", "r", "s", "e">>) \/ includes(title, <<"s", "c", "h", "e", "m", "a">>)
    THEN [category |-> "validation_error",
          rootCause |-> <<"Request payload failed schema validation">>,
          suggestions |-> acc.suggestions \o
              << [action |-> "check_schema", description |-> <<"Review API schema">>, confidence |-> "high"],
                 [action |-> "add_error_detail", description |-> <<"Return validation errors in API response">>, confidence |-> "high"] >>,
          relatedPatterns |-> acc.relatedPatterns \o <<"Schema mismatch", "Client update needed", "Missing field">>]
    ELSE IF \/ includes(title, <<"h", "e", "a", "p">>) \/ includes(title, <<"o", "u", "t", " ", "o", "f", " ", "m", "e", "m", "o", "r", "y">>)
            \/ includes(title, <<"o", "o", "m">>)
    THEN [category |-> "memory_leak",
          rootCause |-> <<"Memory limit exceeded">>,
          suggestions |-> acc.suggestions \o
              << [action |-> "check_heap", description |-> <<"Take heap snapshot">>, confidence |-> "high"],
                 [action |-> "check_streams", description |-> <<"Verify streams are closed">>, confidence |-> "medium"] >>,
          relatedPatterns |-> acc.relatedPatterns \o <<"Unbounded cache", "Event listener leak", "Large payload">>]
    ELSE [category |-> acc.category,
          rootCause |-> acc.rootCause,
          suggestions |-> acc.suggestions \o
              << [action |-> "investigate", description |-> <<"Examine the full stack trace">>, confidence |-> "high"],
                 [action |-> "add_context", description |-> <<"Add breadcrumbs around the error">>, confidence |-> "medium"] >>,
          relatedPatterns |-> acc.relatedPatterns]

\* mutant: the timeout family is tried before the others
applyBuiltInPatterns_timeoutFirst(acc, title) ==
    IF acc.category # "application_error" THEN acc
    ELSE IF includes(title, <<"t", "i", "m", "e", "o", "u", "t">>) THEN builtInChain(acc, <<"t", "i", "m", "e", "o", "u", "t">>)
    ELSE builtInChain(acc, title)

\* if (category === 'application_error') { the built-in chain }
applyBuiltInPatterns(acc, title) ==
    IF acc.category = "application_error" THEN builtInChain(acc, title) ELSE acc

\* mutant: the stack text is not searched
knownBugMatches_titleOnly(bug, title, stack) ==
    \E k \in DOMAIN bug.keywords : includes(title, bug.keywords[k])

\* bug.keywords.some(kw => title.includes(kw) || stack.includes(kw))
knownBugMatches(bug, title, stack) ==
    \E k \in DOMAIN bug.keywords :
        includes(title, bug.keywords[k]) \/ includes(stack, bug.keywords[k])

\* the suggestion built for a matching known bug; the description is the
\* template `Known bug: ${bug.title} <dash> ${bug.fix}`, its dash written " - "
knownBugSuggestion(bug) ==
    [action |-> "known_bug",
     description |-> <<"Known bug: ", bug.title, " - ", bug.fix>>,
     confidence |-> "high"]

\* mutant: push instead of unshift
unshift_atEnd(suggestions, entry) == suggestions \o <<entry>>

\* suggestions.unshift: the new entry goes to the front of the list
unshift(suggestions, entry) == <<entry>> \o suggestions

\* the loop over config.knownBugs
RECURSIVE applyKnownBugs(_, _, _, _)
applyKnownBugs(bugs, title, stack, suggestions) ==
    IF bugs = <<>> THEN suggestions
    ELSE applyKnownBugs(Tail(bugs), title, stack,
             IF knownBugMatches(Head(bugs), title, stack)
             THEN unshift(suggestions, knownBugSuggestion(Head(bugs)))
             ELSE suggestions)

\* one hour in milliseconds, 1000 * 60 * 60
HourMs == 3600000

\* (Date.now() - new Date(input.lastSeen).getTime()) < 1000 * 60 * 60;
\* a comparison with NaN is false
recentActivity(clock, lastSeen) ==
    /\ ~getTime(lastSeen).nan
    /\ clock - getTime(lastSeen).ms < HourMs

\* mutant: the thresholds are inclusive
severityOf_inclusive(level, count, userCount, recent) ==
    IF level = "fatal" \/ count >= 1000 \/ (count >= 100 /\ recent) THEN "critical"
    ELSE IF level = "error" /\ (count >= 100 \/ userCount >= 10) THEN "high"
    ELSE IF level = "error" /\ count >= 10 THEN "medium"
    ELSE "low"

\* mutant: the medium rule is tried before the high rule
severityOf_mediumFirst(level, count, userCount, recent) ==
    IF level = "fatal" \/ count > 1000 \/ (count > 100 /\ recent) THEN "critical"
    ELSE IF level = "error" /\ count > 10 THEN "medium"
    ELSE IF level = "error" /\ (count > 100 \/ userCount > 10) THEN "high"
    ELSE "low"

\* the severity ladder
severityOf(level, count, userCount, recent) ==
    IF level = "fatal" \/ count > 1000 \/ (count > 100 /\ recent) THEN "critical"
    ELSE IF level = "error" /\ (count > 100 \/ userCount > 10) THEN "high"
    ELSE IF level = "error" /\ count > 10 THEN "medium"
    ELSE "low"

\* input.tags.find(t => t.key === key)?.value, '' standing for undefined
tagValue(tags, key) ==
    IF \E i \in DOMAIN tags : tags[i].key = key
    THEN tags[CHOOSE i \in DOMAIN tags : tags[i].key = key /\ \A j \in 1..(i - 1) : tags[j].key # key].value
    ELSE ""

\* the context object of the diagnosis
serviceContext(cfg, inp, clock) ==
    LET serviceTag == tagValue(inp.tags, "service")
        envTag == tagValue(inp.tags, "environment")
        service == IF serviceTag # "" THEN serviceTag
                   ELSE IF inp.project # "" THEN inp.project ELSE "unknown"
        known == service \in DOMAIN cfg.services
    IN [service |-> service,
        repo |-> IF known /\ cfg.services[service].repo # "" THEN cfg.services[service].repo ELSE "unknown",
        runtime |-> IF known /\ cfg.services[service].runtime # "" THEN cfg.services[service].runtime ELSE "unknown",
        environment |-> IF envTag # "" THEN envTag ELSE "unknown",
        eventCount |-> inp.count,
        userCount |-> inp.userCount,
        \* ageDays before its one-decimal rendering: the milliseconds since firstSeen
        age |-> [nan |-> getTime(inp.firstSeen).nan,
                 ms |-> IF getTime(inp.firstSeen).nan THEN 0 ELSE clock - getTime(inp.firstSeen).ms],
        lastActive |-> IF recentActivity(clock, inp.lastSeen)
                       THEN [text |-> "within last hour", date |-> [valid |-> FALSE, ms |-> 0]]
                       ELSE [text |-> "", date |-> inp.lastSeen]]

\* the object buildDiagnosis returns, from its local variables
returnValue(category, rootCause, suggestions, relatedPatterns, cfg, inp, clock) ==
    LET severity == severityOf(inp.level, inp.count, inp.userCount, recentActivity(clock, inp.lastSeen))
    IN [category |-> category,
        severity |-> severity,
        summary |-> <<"[", toUpperCase(severity), "] ", category, ": ">>,
        summaryTitle |-> inp.title,
        rootCause |-> rootCause,
        context |-> serviceContext(cfg, inp, clock),
        suggestions |-> suggestions,
        relatedPatterns |-> relatedPatterns,
        nextSteps |-> <<"Run: cross_correlate with trace_id to check cascade",
                        "Run: generate_runbook with category=", category,
                        IF severity = "critical" \/ severity = "high"
                        THEN "URGENT: Follow runbook mitigation steps"
                        ELSE "Monitor frequency trend">>,
        \* undefined when the list is empty: the empty list stands for it
        breadcrumbs |-> inp.breadcrumbs]

buildDiagnosis(cfg, inp, clock) ==
    LET title == toLowerCase(inp.title)
        culprit == toLowerCase(inp.culprit)
        stack == toLowerCase(join(inp.stacktrace, <<"\n">>))
        byConfig == applyConfigPatterns(cfg.diagnosisPatterns, title, culprit, stack, initialDiagnosis(inp))
        byFamily == applyBuiltInPatterns(byConfig, title)
        suggestions == applyKnownBugs(cfg.knownBugs, title, stack, byFamily.suggestions)
    IN returnValue(byFamily.category, byFamily.rootCause, suggestions, byFamily.relatedPatterns,
                   cfg, inp, clock)

-----------------------------------------------------------------------------
(* buildDiagnosis in memory: the objects and arrays it reads and writes *)

\* heap[a] is what the object or the array at address a holds. An object
\* or a variable that refers to an array holds its address, so that two of
\* them may refer to one array and a write through one shows through the
\* other. Strings and numbers are values; the entries of the suggestion
\* lists, which the code never writes to, are kept as values too.

\* the address of the configuration object every call is passed
ConfigAddress == 1

\* a pattern in memory: its keywords, suggestions and relatedPatterns are
\* arrays of their own, at the three addresses after base
patternObject(pattern, base) ==
    [pattern EXCEPT !.keywords = base + 1, !.suggestions = base + 2, !.relatedPatterns = base + 3]

\* the three arrays of a pattern, in the order of their addresses
patternArrays(pattern) == <<pattern.keywords, pattern.suggestions, pattern.relatedPatterns>>

\* a known bug in memory, its keywords array at the address after base
bugObject(bug, base) == [bug EXCEPT !.keywords = base + 1]

\* memory once the configuration is loaded: the configuration object,
\* its diagnosisPatterns array and its knownBugs array, then the arrays of
\* each pattern and the keywords of each known bug
loaded(cfg) ==
    LET patterns == Len(cfg.diagnosisPatterns)
        bugs == Len(cfg.knownBugs)
    IN << [cfg EXCEPT !.diagnosisPatterns = 2, !.knownBugs = 3],
          [i \in 1..patterns |-> patternObject(cfg.diagnosisPatterns[i], 3 * i)],
          [j \in 1..bugs |-> bugObject(cfg.knownBugs[j], 3 * patterns + 2 + j)] >>
       \o [a \in 1..(3 * patterns) |->
              patternArrays(cfg.diagnosisPatterns[(a + 2) \div 3])[((a - 1) % 3) + 1]]
       \o [j \in 1..bugs |-> cfg.knownBugs[j].keywords]

\* the record the handler builds for a call: the arrays extractStacktrace
\* and extractBreadcrumbs return and the tags array, then the object
\* literal that refers to them, at the last address
withInput(h, inp) ==
    h \o << inp.stacktrace, inp.breadcrumbs, inp.tags,
            [inp EXCEPT !.stacktrace = Len(h) + 1, !.breadcrumbs = Len(h) + 2, !.tags = Len(h) + 3] >>

\* a pattern, a known bug, the configuration and a record as a reader
\* finds them: every array read at its address
patternAt(h, pattern) ==
    [pattern EXCEPT !.keywords = h[@], !.suggestions = h[@], !.relatedPatterns = h[@]]

bugAt(h, bug) == [bug EXCEPT !.keywords = h[@]]

patternsAt(h, array) == [i \in DOMAIN h[array] |-> patternAt(h, h[array][i])]

bugsAt(h, array) == [j \in DOMAIN h[array] |-> bugAt(h, h[array][j])]

configAt(h, cfg) ==
    [h[cfg] EXCEPT !.diagnosisPatterns = patternsAt(h, @), !.knownBugs = bugsAt(h, @)]

inputAt(h, inputObject) ==
    [h[inputObject] EXCEPT !.stacktrace = h[@], !.breadcrumbs = h[@], !.tags = h[@]]

\* const title, const culprit, const stack: strings, made when the call starts
searchedText(h, inputObject) ==
    [title |-> toLowerCase(h[inputObject].title),
     culprit |-> toLowerCase(h[inputObject].culprit),
     stack |-> toLowerCase(join(h[h[inputObject].stacktrace], <<"\n">>))]

\* the local variables of a call after its declarations: category and
\* rootCause of an application error, and suggestions and relatedPatterns
\* referring to two new, empty arrays
declared(h, inputObject) ==
    [heap |-> h \o << <<>>, <<>> >>,
     suggestions |-> Len(h) + 1,
     relatedPatterns |-> Len(h) + 2,
     category |-> initialDiagnosis(inputAt(h, inputObject)).category,
     rootCause |-> initialDiagnosis(inputAt(h, inputObject)).rootCause]

\* target.push(...source): the entries the source array holds are put at
\* the end of the target array
pushSpread(h, target, source) == [h EXCEPT ![target] = @ \o h[source]]

\* mutant: at the first pattern that matches, the variables are made to
\* refer to the lists of the pattern instead of receiving their entries
RECURSIVE afterConfigPatterns_sharedLists(_, _, _)
afterConfigPatterns_sharedLists(frame, patterns, text) ==
    IF patterns = <<>> THEN frame
    ELSE IF patternMatches(patternAt(frame.heap, Head(patterns)), text.title, text.culprit, text.stack)
         THEN [frame EXCEPT !.category = Head(patterns).category,
                            !.rootCause = <<Head(patterns).rootCause>>,
                            !.suggestions = Head(patterns).suggestions,
                            !.relatedPatterns = Head(patterns).relatedPatterns]
         ELSE afterConfigPatterns_sharedLists(frame, Tail(patterns), text)

\* the loop over the pattern objects of config.diagnosisPatterns: at the
\* first that matches, category and rootCause are assigned and the entries
\* of its two lists are pushed on the arrays of the call
RECURSIVE afterConfigPatterns(_, _, _)
afterConfigPatterns(frame, patterns, text) ==
    IF patterns = <<>> THEN frame
    ELSE IF patternMatches(patternAt(frame.heap, Head(patterns)), text.title, text.culprit, text.stack)
         THEN [frame EXCEPT !.category = Head(patterns).category,
                            !.rootCause = <<Head(patterns).rootCause>>,
                            !.heap = pushSpread(pushSpread(@, frame.suggestions, Head(patterns).suggestions),
                                                frame.relatedPatterns, Head(patterns).relatedPatterns)]
         ELSE afterConfigPatterns(frame, Tail(patterns), text)

\* what the local variables hold, the two arrays read at their addresses
locals(frame) ==
    [category |-> frame.category,
     rootCause |-> frame.rootCause,
     suggestions |-> frame.heap[frame.suggestions],
     relatedPatterns |-> frame.heap[frame.relatedPatterns]]

\* the call once its variables hold acc: category and rootCause were
\* assigned, the pushes went to the arrays the two variables refer to
assigned(frame, acc) ==
    [frame EXCEPT !.category = acc.category,
                  !.rootCause = acc.rootCause,
                  !.heap = [@ EXCEPT ![frame.suggestions] = acc.suggestions,
                                     ![frame.relatedPatterns] = acc.relatedPatterns]]

\* the built-in families
afterBuiltInPatterns(frame, text) ==
    assigned(frame, applyBuiltInPatterns(locals(frame), text.title))

\* the loop over config.knownBugs: every suggestions.unshift goes to the
\* array the variable refers to
afterKnownBugs(frame, cfg, text) ==
    [frame EXCEPT !.heap = [@ EXCEPT ![frame.suggestions] =
                               applyKnownBugs(configAt(frame.heap, cfg).knownBugs,
                                              text.title, text.stack, @)]]

\* the return statement: memory as the call leaves it and the object it
\* returns; suggestions and relatedPatterns are the arrays the variables
\* refer to, breadcrumbs is the array of the record, 0 for undefined when
\* that array is empty
returned(frame, cfg, inputObject, clock) ==
    [heap |-> frame.heap,
     diagnosis |->
        [returnValue(frame.category, frame.rootCause, frame.suggestions, frame.relatedPatterns,
                     configAt(frame.heap, cfg), inputAt(frame.heap, inputObject), clock)
            EXCEPT !.breadcrumbs = IF Len(frame.heap[frame.heap[inputObject].breadcrumbs]) > 0
                                   THEN frame.heap[inputObject].breadcrumbs ELSE 0]]

\* buildDiagnosis(config, input) on the objects at the two addresses
buildDiagnosisAt(h, cfg, inputObject, clock) ==
    returned(
        afterKnownBugs(
            afterBuiltInPatterns(
                afterConfigPatterns(declared(h, inputObject), h[h[cfg].diagnosisPatterns],
                                    searchedText(h, inputObject)),
                searchedText(h, inputObject)),
            cfg, searchedText(h, inputObject)),
        cfg, inputObject, clock)

\* a returned object as its receiver reads it: the three lists read at
\* their addresses
diagnosisAt(h, returnedObject) ==
    [returnedObject EXCEPT !.suggestions = h[@], !.relatedPatterns = h[@],
                           !.breadcrumbs = IF @ = 0 THEN <<>> ELSE h[@]]

-----------------------------------------------------------------------------
(* detectTemporalPattern: the timestamp series classifier *)

\* a - b of two numbers: NaN when either is
difference(a, b) ==
    [nan |-> a.nan \/ b.nan, ms |-> IF a.nan \/ b.nan THEN 0 ELSE a.ms - b.ms]

\* the comparator (a, b) => b - a as Array.prototype.sort reads it: a result
\* of NaN counts as 0
descending(a, b) == IF a.nan \/ b.nan THEN 0 ELSE b.ms - a.ms

\* Array.prototype.sort of V8 (third_party/v8/builtins/array-sort.tq), on
\* an array of entries ordered by their keys. The array is cut into runs of
\* at least computeMinRunLength entries: a run is counted where the array
\* is in order already, reversed when it descends, and filled up by binary
\* insertion when it is short; the runs are merged two by two, one entry at
\* a time or, when one run wins kMinGallopWins times in a row, in gallops.
\* An array of fewer than 64 entries is a single run. Places are counted
\* from 0, as in the code.
Compare(x, y) == descending(x.key, y.key)

kMinGallopWins == 7

at(array, i) == array[i + 1]

store(array, i, element) == [array EXCEPT ![i + 1] = element]

\* Copy(source, srcPos, target, dstPos, length): the target after the copy
Copy(source, srcPos, target, dstPos, length) ==
    SubSeq(target, 1, dstPos) \o SubSeq(source, srcPos + 1, srcPos + length)
        \o SubSeq(target, dstPos + length + 1, Len(target))

reverse(a) == [i \in 1..Len(a) |-> a[Len(a) + 1 - i]]

\* ReverseRange(array, from, to): the places from from up to to - 1
ReverseRange(array, from, to) ==
    SubSeq(array, 1, from) \o reverse(SubSeq(array, from + 1, to)) \o SubSeq(array, to + 1, Len(array))

RECURSIVE minRunLengthFrom(_, _)
minRunLengthFrom(n, r) ==
    IF n >= 64 THEN minRunLengthFrom(n \div 2, IF n % 2 = 1 THEN 1 ELSE r) ELSE n + r

computeMinRunLength(n) == minRunLengthFrom(n, 0)

\* the place after the run that starts at low - 1: the run goes on while
\* the order of an entry and the one before it is that of the first two
runEnd(array, low, high, isDescending) ==
    LET ends == {idx \in (low + 1)..(high - 1) :
                    LET order == Compare(at(array, idx), at(array, idx - 1))
                    IN (isDescending /\ order >= 0) \/ (~isDescending /\ order < 0)}
    IN IF ends = {} THEN high ELSE CHOOSE idx \in ends : \A other \in ends : idx <= other

countAndMakeRun(array, lowArg, high) ==
    LET low == lowArg + 1
    IN IF low = high THEN [array |-> array, runLength |-> 1]
       ELSE LET isDescending == Compare(at(array, low), at(array, low - 1)) < 0
                runLength == runEnd(array, low, high, isDescending) - lowArg
            IN [array |-> IF isDescending THEN ReverseRange(array, lowArg, lowArg + runLength)
                          ELSE array,
                runLength |-> runLength]

\* the binary search of the place of the pivot among the places left..right - 1
RECURSIVE insertionPoint(_, _, _, _)
insertionPoint(array, pivot, left, right) ==
    IF left >= right THEN left
    ELSE LET mid == left + ((right - left) \div 2)
         IN IF Compare(pivot, at(array, mid)) < 0 THEN insertionPoint(array, pivot, left, mid)
            ELSE insertionPoint(array, pivot, mid + 1, right)

\* the places low..start - 1 are in order; the entry at start is moved to
\* its place
insertAt(array, low, start) ==
    LET pivot == at(array, start)
        left == insertionPoint(array, pivot, low, start)
    IN SubSeq(array, 1, left) \o <<pivot>> \o SubSeq(array, left + 1, start)
           \o SubSeq(array, start + 2, Len(array))

\* the entries at start..high - 1 are moved one after the other
RECURSIVE insertFrom(_, _, _, _)
insertFrom(array, low, start, high) ==
    IF Len(array) = 0 \/ start >= high THEN array
    ELSE IF high - start = 1 THEN insertAt(array, low, start)
    ELSE LET half == start + ((high - start) \div 2)
         IN insertFrom(insertFrom(array, low, start, half), low, half, high)

binaryInsertionSort(array, low, startArg, high) ==
    insertFrom(array, low, IF low = startArg THEN startArg + 1 ELSE startArg, high)

\* the entry at place i comes before the key: array[i] < key for
\* gallopLeft, array[i] <= key for gallopRight
precedes(array, i, key, leftmost) ==
    IF leftmost THEN Compare(at(array, i), key) < 0 ELSE Compare(key, at(array, i)) >= 0

\* gallop to the right of the hint while the entries come before the key
RECURSIVE gallopForward(_, _, _, _, _, _, _)
gallopForward(array, key, leftmost, from, maxOfs, lastOfs, offset) ==
    IF offset < maxOfs /\ precedes(array, from + offset, key, leftmost)
    THEN gallopForward(array, key, leftmost, from, maxOfs, offset, 2 * offset + 1)
    ELSE [lastOfs |-> lastOfs, offset |-> IF offset > maxOfs THEN maxOfs ELSE offset]

\* gallop to the left of the hint while the entries do not come before the key
RECURSIVE gallopBackward(_, _, _, _, _, _, _)
gallopBackward(array, key, leftmost, from, maxOfs, lastOfs, offset) ==
    IF offset < maxOfs /\ ~precedes(array, from - offset, key, leftmost)
    THEN gallopBackward(array, key, leftmost, from, maxOfs, offset, 2 * offset + 1)
    ELSE [lastOfs |-> lastOfs, offset |-> IF offset > maxOfs THEN maxOfs ELSE offset]

RECURSIVE gallopSearch(_, _, _, _, _, _)
gallopSearch(array, key, leftmost, base, lastOfs, offset) ==
    IF lastOfs >= offset THEN offset
    ELSE LET m == lastOfs + ((offset - lastOfs) \div 2)
         IN IF precedes(array, base + m, key, leftmost)
            THEN gallopSearch(array, key, leftmost, base, m + 1, offset)
            ELSE gallopSearch(array, key, leftmost, base, lastOfs, m)

gallopBetween(array, key, base, leftmost, found) ==
    gallopSearch(array, key, leftmost, base, found.lastOfs + 1, found.offset)

gallop(array, key, base, length, hint, leftmost) ==
    gallopBetween(array, key, base, leftmost,
        IF precedes(array, base + hint, key, leftmost)
        THEN LET g == gallopForward(array, key, leftmost, base + hint, length - hint, 0, 1)
             IN [lastOfs |-> g.lastOfs + hint, offset |-> g.offset + hint]
        ELSE LET g == gallopBackward(array, key, leftmost, base + hint, hint + 1, 0, 1)
             IN [lastOfs |-> hint - g.offset, offset |-> hint - g.lastOfs])

\* the number of entries of the run before the leftmost place of the key
gallopLeft(array, key, base, length, hint) == gallop(array, key, base, length, hint, TRUE)

\* the number of entries of the run before the rightmost place of the key
gallopRight(array, key, base, length, hint) == gallop(array, key, base, length, hint, FALSE)

\* MergeLow: run A is copied to tempArray and the merge fills workArray
\* from the left. m holds the variables of the loop (cursor is cursorB) and
\* the loop it is in: one entry at a time, galloping, or done.
mergeLowSucceed(m) ==
    [m EXCEPT !.workArray = IF m.lengthA > 0
                            THEN Copy(m.tempArray, m.cursorTemp, m.workArray, m.dest, m.lengthA)
                            ELSE m.workArray,
              !.loop = "done"]

mergeLowCopyB(m) ==
    [m EXCEPT !.workArray = store(Copy(m.workArray, m.cursor, m.workArray, m.dest, m.lengthB),
                                  m.dest + m.lengthB, at(m.tempArray, m.cursorTemp)),
              !.loop = "done"]

\* workArray[dest++] = workArray[cursorB++]; --lengthB
takeB(m) ==
    [m EXCEPT !.workArray = store(m.workArray, m.dest, at(m.workArray, m.cursor)),
              !.dest = @ + 1, !.cursor = @ + 1, !.lengthB = @ - 1]

\* workArray[dest++] = tempArray[cursorTemp++]; --lengthA
takeTempA(m) ==
    [m EXCEPT !.workArray = store(m.workArray, m.dest, at(m.tempArray, m.cursorTemp)),
              !.dest = @ + 1, !.cursorTemp = @ + 1, !.lengthA = @ - 1]

\* ++minGallop on the way into the galloping loop
startGalloping(m) == [m EXCEPT !.loop = "galloping", !.minGallop = @ + 1]

\* ++minGallop on the way out of it
stopGalloping(m) ==
    [m EXCEPT !.loop = "oneByOne", !.minGallop = @ + 1, !.nofWinsA = 0, !.nofWinsB = 0]

mergeLowOneByOne(m) ==
    IF Compare(at(m.workArray, m.cursor), at(m.tempArray, m.cursorTemp)) < 0
    THEN LET n == [takeB(m) EXCEPT !.nofWinsB = @ + 1, !.nofWinsA = 0]
         IN IF n.lengthB = 0 THEN mergeLowSucceed(n)
            ELSE IF n.nofWinsB >= n.minGallop THEN startGalloping(n)
            ELSE n
    ELSE LET n == [takeTempA(m) EXCEPT !.nofWinsA = @ + 1, !.nofWinsB = 0]
         IN IF n.lengthA = 1 THEN mergeLowCopyB(n)
            ELSE IF n.nofWinsA >= n.minGallop THEN startGalloping(n)
            ELSE n

\* the end of a turn of the galloping loop
mergeLowGalloped(m, nofWinsA, nofWinsB) ==
    IF m.lengthA = 1 THEN mergeLowCopyB(m)
    ELSE IF nofWinsA >= kMinGallopWins \/ nofWinsB >= kMinGallopWins THEN m
    ELSE stopGalloping(m)

\* after the entries of B that come before the next entry of A
mergeLowCopiedB(m, nofWinsA, nofWinsB) ==
    IF nofWinsB > 0 /\ m.lengthB = 0 THEN mergeLowSucceed(m)
    ELSE mergeLowGalloped(takeTempA(m), nofWinsA, nofWinsB)

\* the nofWinsB entries of B that come before the next entry of A are copied
mergeLowGallopedB(m, nofWinsA, nofWinsB) ==
    mergeLowCopiedB(IF nofWinsB > 0
                    THEN [m EXCEPT !.workArray = Copy(m.workArray, m.cursor, m.workArray, m.dest, nofWinsB),
                                   !.dest = @ + nofWinsB, !.cursor = @ + nofWinsB,
                                   !.lengthB = @ - nofWinsB]
                    ELSE m,
                    nofWinsA, nofWinsB)

mergeLowGallopB(m, nofWinsA) ==
    IF m.lengthB = 0 THEN mergeLowSucceed(m)
    ELSE mergeLowGallopedB(m, nofWinsA,
             gallopLeft(m.workArray, at(m.tempArray, m.cursorTemp), m.cursor, m.lengthB, 0))

\* after the entries of A that come before the next entry of B
mergeLowCopiedA(m, nofWinsA) ==
    IF nofWinsA > 0 /\ m.lengthA = 1 THEN mergeLowCopyB(m)
    ELSE IF nofWinsA > 0 /\ m.lengthA = 0 THEN mergeLowSucceed(m)
    ELSE mergeLowGallopB(takeB(m), nofWinsA)

\* the nofWinsA entries of A that come before the next entry of B are copied
mergeLowGallopedA(m, nofWinsA) ==
    mergeLowCopiedA(IF nofWinsA > 0
                    THEN [m EXCEPT !.workArray = Copy(m.tempArray, m.cursorTemp, m.workArray, m.dest, nofWinsA),
                                   !.dest = @ + nofWinsA, !.cursorTemp = @ + nofWinsA,
                                   !.lengthA = @ - nofWinsA]
                    ELSE m,
                    nofWinsA)

mergeLowGallopA(m) ==
    mergeLowGallopedA(m, gallopRight(m.tempArray, at(m.workArray, m.cursor), m.cursorTemp, m.lengthA, 0))

\* one turn of the galloping loop: minGallop goes down, not below 1
mergeLowGalloping(m) == mergeLowGallopA([m EXCEPT !.minGallop = IF @ - 1 < 1 THEN 1 ELSE @ - 1])

\* one turn of the loop the merge is in
mergeLowStep(m) == IF m.loop = "galloping" THEN mergeLowGalloping(m) ELSE mergeLowOneByOne(m)

\* the merge after so many turns, or when it is done; every turn moves an entry
RECURSIVE mergeLowTurns(_, _)
mergeLowTurns(m, turns) ==
    IF m.loop = "done" \/ turns = 0 THEN m
    ELSE IF turns = 1 THEN mergeLowStep(m)
    ELSE mergeLowTurns(mergeLowTurns(m, turns \div 2), turns - (turns \div 2))

\* the array and minGallop a merge leaves
mergeOutcome(m) == [array |-> m.workArray, minGallop |-> m.minGallop]

mergeLowFrom(m) ==
    mergeOutcome(IF m.lengthB = 0 THEN mergeLowSucceed(m)
                 ELSE IF m.lengthA = 1 THEN mergeLowCopyB(m)
                 ELSE mergeLowTurns(m, m.lengthA + m.lengthB))

mergeLow(array, minGallop, baseA, lengthA, baseB, lengthB) ==
    mergeLowFrom(takeB([workArray |-> array, tempArray |-> SubSeq(array, baseA + 1, baseA + lengthA),
                        dest |-> baseA, cursorTemp |-> 0, cursor |-> baseB, baseA |-> baseA,
                        lengthA |-> lengthA, lengthB |-> lengthB, minGallop |-> minGallop,
                        nofWinsA |-> 0, nofWinsB |-> 0, loop |-> "oneByOne"]))

\* MergeHigh: run B is copied to tempArray and the merge fills workArray
\* from the right; cursor is cursorA.
mergeHighSucceed(m) ==
    [m EXCEPT !.workArray = IF m.lengthB > 0
                            THEN Copy(m.tempArray, 0, m.workArray, m.dest - (m.lengthB - 1), m.lengthB)
                            ELSE m.workArray,
              !.loop = "done"]

mergeHighCopyA(m) ==
    LET dest == m.dest - m.lengthA
        cursorA == m.cursor - m.lengthA
    IN [m EXCEPT !.workArray = store(Copy(m.workArray, cursorA + 1, m.workArray, dest + 1, m.lengthA),
                                     dest, at(m.tempArray, m.cursorTemp)),
                 !.loop = "done"]

\* workArray[dest--] = workArray[cursorA--]; --lengthA
takeA(m) ==
    [m EXCEPT !.workArray = store(m.workArray, m.dest, at(m.workArray, m.cursor)),
              !.dest = @ - 1, !.cursor = @ - 1, !.lengthA = @ - 1]

\* workArray[dest--] = tempArray[cursorTemp--]; --lengthB
takeTempB(m) ==
    [m EXCEPT !.workArray = store(m.workArray, m.dest, at(m.tempArray, m.cursorTemp)),
              !.dest = @ - 1, !.cursorTemp = @ - 1, !.lengthB = @ - 1]

mergeHighOneByOne(m) ==
    IF Compare(at(m.tempArray, m.cursorTemp), at(m.workArray, m.cursor)) < 0
    THEN LET n == [takeA(m) EXCEPT !.nofWinsA = @ + 1, !.nofWinsB = 0]
         IN IF n.lengthA = 0 THEN mergeHighSucceed(n)
            ELSE IF n.nofWinsA >= n.minGallop THEN startGalloping(n)
            ELSE n
    ELSE LET n == [takeTempB(m) EXCEPT !.nofWinsB = @ + 1, !.nofWinsA = 0]
         IN IF n.lengthB = 1 THEN mergeHighCopyA(n)
            ELSE IF n.nofWinsB >= n.minGallop THEN startGalloping(n)
            ELSE n

mergeHighGalloped(m, nofWinsA, nofWinsB) ==
    IF m.lengthA = 0 THEN mergeHighSucceed(m)
    ELSE IF nofWinsA >= kMinGallopWins \/ nofWinsB >= kMinGallopWins THEN m
    ELSE stopGalloping(m)

\* after the entries of B that come after the last entry of A
mergeHighCopiedB(m, nofWinsA, nofWinsB) ==
    IF nofWinsB > 0 /\ m.lengthB = 1 THEN mergeHighCopyA(m)
    ELSE IF nofWinsB > 0 /\ m.lengthB = 0 THEN mergeHighSucceed(m)
    ELSE mergeHighGalloped(takeA(m), nofWinsA, nofWinsB)

mergeHighGallopedB(m, nofWinsA, nofWinsB) ==
    mergeHighCopiedB(IF nofWinsB > 0
                     THEN [m EXCEPT !.workArray = Copy(m.tempArray, m.cursorTemp - nofWinsB + 1, m.workArray,
                                                       m.dest - nofWinsB + 1, nofWinsB),
                                    !.dest = @ - nofWinsB, !.cursorTemp = @ - nofWinsB,
                                    !.lengthB = @ - nofWinsB]
                     ELSE m,
                     nofWinsA, nofWinsB)

mergeHighGallopB(m, nofWinsA) ==
    IF m.lengthB = 1 THEN mergeHighCopyA(m)
    ELSE mergeHighGallopedB(m, nofWinsA,
             m.lengthB - gallopLeft(m.tempArray, at(m.workArray, m.cursor), 0, m.lengthB, m.lengthB - 1))

\* after the entries of A that come after the last entry of B
mergeHighCopiedA(m, nofWinsA) ==
    IF nofWinsA > 0 /\ m.lengthA = 0 THEN mergeHighSucceed(m)
    ELSE mergeHighGallopB(takeTempB(m), nofWinsA)

mergeHighGallopedA(m, nofWinsA) ==
    mergeHighCopiedA(IF nofWinsA > 0
                     THEN [m EXCEPT !.workArray = Copy(m.workArray, m.cursor - nofWinsA + 1, m.workArray,
                                                       m.dest - nofWinsA + 1, nofWinsA),
                                    !.dest = @ - nofWinsA, !.cursor = @ - nofWinsA,
                                    !.lengthA = @ - nofWinsA]
                     ELSE m,
                     nofWinsA)

mergeHighGallopA(m) ==
    mergeHighGallopedA(m, m.lengthA - gallopRight(m.workArray, at(m.tempArray, m.cursorTemp),
                                                  m.baseA, m.lengthA, m.lengthA - 1))

mergeHighGalloping(m) == mergeHighGallopA([m EXCEPT !.minGallop = IF @ - 1 < 1 THEN 1 ELSE @ - 1])

mergeHighStep(m) == IF m.loop = "galloping" THEN mergeHighGalloping(m) ELSE mergeHighOneByOne(m)

RECURSIVE mergeHighTurns(_, _)
mergeHighTurns(m, turns) ==
    IF m.loop = "done" \/ turns = 0 THEN m
    ELSE IF turns = 1 THEN mergeHighStep(m)
    ELSE mergeHighTurns(mergeHighTurns(m, turns \div 2), turns - (turns \div 2))

mergeHighFrom(m) ==
    mergeOutcome(IF m.lengthA = 0 THEN mergeHighSucceed(m)
                 ELSE IF m.lengthB = 1 THEN mergeHighCopyA(m)
                 ELSE mergeHighTurns(m, m.lengthA + m.lengthB))

mergeHigh(array, minGallop, baseA, lengthA, baseB, lengthB) ==
    mergeHighFrom(takeA([workArray |-> array, tempArray |-> SubSeq(array, baseB + 1, baseB + lengthB),
                         dest |-> baseB + lengthB - 1, cursorTemp |-> lengthB - 1,
                         cursor |-> baseA + lengthA - 1, baseA |-> baseA,
                         lengthA |-> lengthA, lengthB |-> lengthB, minGallop |-> minGallop,
                         nofWinsA |-> 0, nofWinsB |-> 0, loop |-> "oneByOne"]))

\* MergeAt(i): the runs i and i + 1 of the pending runs become one run.
\* The entries of A before the place of the first entry of B, and the
\* entries of B after the place of the last entry of A, are in place.
mergedAt(sortState, i, result) ==
    LET runA == sortState.pendingRuns[i + 1]
        runB == sortState.pendingRuns[i + 2]
    IN [workArray |-> result.array,
        pendingRuns |-> SubSeq(sortState.pendingRuns, 1, i)
                            \o <<[base |-> runA.base, length |-> runA.length + runB.length]>>
                            \o SubSeq(sortState.pendingRuns, i + 3, Len(sortState.pendingRuns)),
        minGallop |-> result.minGallop]

mergeTrimmed(sortState, i, baseA, lengthA, baseB, lengthB) ==
    mergedAt(sortState, i,
        IF lengthA = 0 \/ lengthB = 0
        THEN [array |-> sortState.workArray, minGallop |-> sortState.minGallop]
        ELSE IF lengthA <= lengthB
        THEN mergeLow(sortState.workArray, sortState.minGallop, baseA, lengthA, baseB, lengthB)
        ELSE mergeHigh(sortState.workArray, sortState.minGallop, baseA, lengthA, baseB, lengthB))

mergeFrom(sortState, i, baseA, lengthA, runB) ==
    mergeTrimmed(sortState, i, baseA, lengthA, runB.base,
        gallopLeft(sortState.workArray, at(sortState.workArray, baseA + lengthA - 1),
                   runB.base, runB.length, runB.length - 1))

mergeAfter(sortState, i, runA, runB, k) ==
    mergeFrom(sortState, i, runA.base + k, runA.length - k, runB)

mergeRuns(sortState, i, runA, runB) ==
    mergeAfter(sortState, i, runA, runB,
        gallopRight(sortState.workArray, at(sortState.workArray, runB.base), runA.base, runA.length, 0))

mergeAt(sortState, i) == mergeRuns(sortState, i, sortState.pendingRuns[i + 1], sortState.pendingRuns[i + 2])

\* the run n is shorter than the run two before it less the run before it
runInvariantEstablished(pendingRuns, n) ==
    n < 2 \/ pendingRuns[n - 1].length > pendingRuns[n].length + pendingRuns[n + 1].length

RECURSIVE mergeCollapse(_)
mergeCollapse(sortState) ==
    LET runs == sortState.pendingRuns
        n == Len(runs) - 2
        unsettled == ~runInvariantEstablished(runs, n + 1) \/ ~runInvariantEstablished(runs, n)
    IN IF Len(runs) <= 1 THEN sortState
       ELSE IF unsettled \/ runs[n + 1].length <= runs[n + 2].length
       THEN mergeCollapse(mergeAt(sortState,
                                  IF unsettled /\ runs[n].length < runs[n + 2].length
                                  THEN n - 1 ELSE n))
       ELSE sortState

RECURSIVE mergeForceCollapse(_)
mergeForceCollapse(sortState) ==
    LET runs == sortState.pendingRuns
        n == Len(runs) - 2
    IN IF Len(runs) <= 1 THEN sortState
       ELSE mergeForceCollapse(mergeAt(sortState,
                                       IF n > 0 /\ runs[n].length < runs[n + 2].length
                                       THEN n - 1 ELSE n))

\* the loop of ArrayTimSortImpl: the next run is counted, filled up,
\* pushed and merged with the runs before it
pushRun(sortState, base, length) ==
    [sortState EXCEPT !.pendingRuns = Append(@, [base |-> base, length |-> length])]

\* the run counted at low, filled up to the minimal length by binary
\* insertion when it is shorter
extendedRun(run, low, remaining, minRunLength) ==
    IF run.runLength < minRunLength
    THEN LET forcedRunLength == IF minRunLength < remaining THEN minRunLength ELSE remaining
         IN [array |-> binaryInsertionSort(run.array, low, low + run.runLength, low + forcedRunLength),
             runLength |-> forcedRunLength]
    ELSE run

RECURSIVE sortRuns(_, _, _, _)
sortNextRun(sortState, low, remaining, minRunLength, run) ==
    sortRuns(mergeCollapse(pushRun([sortState EXCEPT !.workArray = run.array], low, run.runLength)),
             low + run.runLength, remaining - run.runLength, minRunLength)

sortRuns(sortState, low, remaining, minRunLength) ==
    IF remaining = 0 THEN mergeForceCollapse(sortState)
    ELSE sortNextRun(sortState, low, remaining, minRunLength,
             extendedRun(countAndMakeRun(sortState.workArray, low, low + remaining),
                         low, remaining, minRunLength))

arrayTimSortImpl(array) ==
    IF Len(array) < 2 THEN array
    ELSE sortRuns([workArray |-> array, pendingRuns |-> <<>>, minGallop |-> kMinGallopWins],
                  0, Len(array), computeMinRunLength(Len(array))).workArray

arraySort(a) == arrayTimSortImpl(SubSeq(a, 1, Len(a)))

\* timestamps.map(t => new Date(t).getTime()).sort((a, b) => b - a)
sortedTimesOf(ts) ==
    LET sorted == arraySort([i \in 1..Len(ts) |-> [key |-> getTime(ts[i])]])
    IN [i \in 1..Len(ts) |-> sorted[i].key]

\* gaps.reduce((a, b) => a + b, 0)
RECURSIVE sum(_)
sum(xs) ==
    IF Len(xs) = 0 THEN 0
    ELSE IF Len(xs) = 1 THEN xs[1]
    ELSE sum(SubSeq(xs, 1, Len(xs) \div 2)) + sum(SubSeq(xs, (Len(xs) \div 2) + 1, Len(xs)))

\* Math.max(...gaps)
RECURSIVE max(_)
max(xs) ==
    IF Len(xs) = 1 THEN xs[1]
    ELSE LET front == max(SubSeq(xs, 1, Len(xs) \div 2))
             back == max(SubSeq(xs, (Len(xs) \div 2) + 1, Len(xs)))
         IN IF front >= back THEN front ELSE back

\* times.slice(0, -1).map((t, i) => t - times[i + 1])
gapsOf(times) == [i \in 1..(Len(times) - 1) |-> difference(times[i], times[i + 1])]

\* no gap is NaN
numbers(gaps) == \A i \in 1..Len(gaps) : ~gaps[i].nan

\* the gaps in milliseconds
milliseconds(gaps) == [i \in 1..Len(gaps) |-> gaps[i].ms]

(* IEEE 754 binary64 arithmetic on numbers that are not negative *)

\* a natural number is the sequence of its digits to the base 2^15, least
\* significant first and the last digit not 0; zero is the empty sequence
Base == 2^15

RECURSIVE natural(_)
natural(n) == IF n = 0 THEN <<>> ELSE <<n % Base>> \o natural(n \div Base)

trim(a) ==
    LET used == {i \in 1..Len(a) : a[i] # 0}
    IN IF used = {} THEN <<>> ELSE SubSeq(a, 1, CHOOSE i \in used : \A j \in used : j <= i)

digitAt(a, i) == IF 1 <= i /\ i <= Len(a) THEN a[i] ELSE 0

RECURSIVE addFrom(_, _, _, _)
addFrom(a, b, i, carry) ==
    IF i > Len(a) /\ i > Len(b) THEN (IF carry = 0 THEN <<>> ELSE <<carry>>)
    ELSE LET t == digitAt(a, i) + digitAt(b, i) + carry
         IN <<t % Base>> \o addFrom(a, b, i + 1, t \div Base)

plus(a, b) == addFrom(a, b, 1, 0)

RECURSIVE subFrom(_, _, _, _)
subFrom(a, b, i, borrow) ==
    IF i > Len(a) THEN <<>>
    ELSE LET t == digitAt(a, i) - digitAt(b, i) - borrow
         IN <<t % Base>> \o subFrom(a, b, i + 1, IF t < 0 THEN 1 ELSE 0)

\* a - b for a >= b
minus(a, b) == trim(subFrom(a, b, 1, 0))

less(a, b) ==
    IF Len(a) # Len(b) THEN Len(a) < Len(b)
    ELSE \E i \in 1..Len(a) : a[i] < b[i] /\ \A j \in (i + 1)..Len(a) : a[j] = b[j]

\* |a - b|
distance(a, b) == IF less(a, b) THEN minus(b, a) ELSE minus(a, b)

\* a * d for one digit d, from digit i on
RECURSIVE timesDigitFrom(_, _, _, _)
timesDigitFrom(a, d, i, carry) ==
    IF i > Len(a) THEN (IF carry = 0 THEN <<>> ELSE <<carry>>)
    ELSE LET t == a[i] * d + carry
         IN <<t % Base>> \o timesDigitFrom(a, d, i + 1, t \div Base)

RECURSIVE productFrom(_, _, _)
productFrom(a, b, j) ==
    IF j > Len(b) THEN <<>>
    ELSE LET row == [i \in 1..(j - 1) |-> 0] \o timesDigitFrom(a, b[j], 1, 0)
             others == productFrom(a, b, j + 1)
         IN trim(plus(row, others))

product(a, b) == productFrom(a, b, 1)

\* the quotient and the remainder of a by a number d below the base, the
\* digits of a taken from the top
RECURSIVE divideFrom(_, _, _, _)
divideFrom(a, d, i, r) ==
    IF i = 0 THEN [q |-> <<>>, r |-> r]
    ELSE LET t == r * Base + a[i]
             lower == divideFrom(a, d, i - 1, t % d)
         IN [q |-> lower.q \o <<t \div d>>, r |-> lower.r]

divide(a, d) ==
    LET result == divideFrom(a, d, Len(a), 0)
    IN [q |-> trim(result.q), r |-> result.r]

RECURSIVE lengthOf(_)
lengthOf(n) == IF n = 0 THEN 0 ELSE 1 + lengthOf(n \div 2)

\* the number of binary digits of a
bitLength(a) == IF a = <<>> THEN 0 ELSE 15 * (Len(a) - 1) + lengthOf(a[Len(a)])

\* the binary digit of weight 2^i
bit(a, i) == (digitAt(a, (i \div 15) + 1) \div 2^(i % 15)) % 2

\* a * 2^k
shiftLeft(a, k) ==
    LET q == k \div 15
        r == k % 15
    IN trim([j \in 1..(Len(a) + q + 1) |->
               ((digitAt(a, j - q) * 2^r) % Base) + (digitAt(a, j - q - 1) \div 2^(15 - r))])

\* a \div 2^k
shiftRight(a, k) ==
    LET q == k \div 15
        r == k % 15
    IN IF q >= Len(a) THEN <<>>
       ELSE trim([j \in 1..(Len(a) - q) |->
                    (digitAt(a, j + q) \div 2^r) + ((digitAt(a, j + q + 1) % 2^r) * 2^(15 - r))])

\* the integer square root with its remainder, one binary digit at a time:
\* the square of root + 2^k is root^2 + root * 2^(k+1) + 4^k
RECURSIVE rootFrom(_, _, _)
rootFrom(n, root, k) ==
    IF k < 0 THEN [q |-> root, r |-> n]
    ELSE LET t == plus(shiftLeft(root, k + 1), shiftLeft(<<1>>, 2 * k))
         IN IF less(n, t) THEN rootFrom(n, root, k - 1)
            ELSE rootFrom(minus(n, t), plus(root, shiftLeft(<<1>>, k)), k - 1)

squareRoot(n) == rootFrom(n, <<>>, bitLength(n) \div 2)

\* a double is man * 2^exp with man a natural number of at most 53 binary
\* digits. The number a * 2^e, plus something below 2^e when sticky, rounded
\* to nearest, ties to even
round(a, e, sticky) ==
    IF bitLength(a) <= 53 THEN [man |-> a, exp |-> e]
    ELSE LET k == bitLength(a) - 53
             kept == shiftRight(a, k)
             half == bit(a, k - 1) = 1
             rest == sticky \/ \E i \in 0..(k - 2) : bit(a, i) = 1
             up == half /\ (rest \/ bit(kept, 0) = 1)
             m == IF up THEN plus(kept, <<1>>) ELSE kept
         IN IF bitLength(m) > 53 THEN [man |-> shiftRight(m, 1), exp |-> e + k + 1]
            ELSE [man |-> m, exp |-> e + k]

double(n) == [man |-> natural(n), exp |-> 0]

\* x / d for an integer d below the base
fdiv(x, d) ==
    IF x.man = <<>> THEN x
    ELSE LET k == 72 - bitLength(x.man)
             result == divide(shiftLeft(x.man, k), d)
         IN round(result.q, x.exp - k, result.r # 0)

\* x * y
fmul(x, y) ==
    IF x.man = <<>> \/ y.man = <<>> THEN double(0)
    ELSE round(product(x.man, y.man), x.exp + y.exp, FALSE)

\* x + y
fadd(x, y) ==
    IF x.exp < y.exp THEN round(plus(x.man, shiftLeft(y.man, y.exp - x.exp)), x.exp, FALSE)
    ELSE round(plus(shiftLeft(x.man, x.exp - y.exp), y.man), y.exp, FALSE)

\* |x - y|
fdist(x, y) ==
    IF x.exp < y.exp THEN round(distance(x.man, shiftLeft(y.man, y.exp - x.exp)), x.exp, FALSE)
    ELSE round(distance(shiftLeft(x.man, x.exp - y.exp), y.man), y.exp, FALSE)

\* Math.sqrt(x)
fsqrt(x) ==
    IF x.man = <<>> THEN x
    ELSE LET k0 == 110 - bitLength(x.man)
             k == IF (x.exp - k0) % 2 = 0 THEN k0 ELSE k0 + 1
             result == squareRoot(shiftLeft(x.man, k))
         IN round(result.q, (x.exp - k) \div 2, result.r # <<>>)

\* x / y < 0.5: the quotient rounds to a double below 0.5 when it is below
\* 0.5 - 2^-55, half-way between 0.5 and the double before it (the tie goes
\* to 0.5, whose last digit is even): 2^55 * x < (2^54 - 1) * y
quotientBelowHalf(x, y) ==
    IF x.exp + 55 < y.exp
    THEN less(x.man, shiftLeft(minus(shiftLeft(y.man, 54), y.man), y.exp - x.exp - 55))
    ELSE less(shiftLeft(x.man, x.exp + 55 - y.exp), minus(shiftLeft(y.man, 54), y.man))

\* the value is worked out
known(x) == x = x

\* gaps.reduce((sum, g) => sum + Math.pow(g - avgGap, 2), 0): the squares of
\* the gaps after place from up to place to are added to the sum so far,
\* one after the other; the square of a double is rounded as its product
\* with itself
RECURSIVE sumSquares(_, _, _, _, _)
sumSquares(sumSoFar, gaps, avgGap, from, to) ==
    IF ~known(sumSoFar) \/ from >= to THEN sumSoFar
    ELSE IF to - from = 1
    THEN LET d == fdist(double(gaps[to]), avgGap)
         IN fadd(sumSoFar, fmul(d, d))
    ELSE LET half == from + ((to - from) \div 2)
         IN sumSquares(sumSquares(sumSoFar, gaps, avgGap, from, half), gaps, avgGap, half, to)

\* Math.sqrt(variance) / avgGap < 0.5 in binary64, for gaps in milliseconds
\* that are not negative and whose sum is not 0
roundedCvBelowHalf(gaps) ==
    LET m == Len(gaps)
        avgGap == fdiv(double(sum(gaps)), m)
        variance == fdiv(sumSquares(double(0), gaps, avgGap, 0, m), m)
    IN quotientBelowHalf(fsqrt(variance), avgGap)

RECURSIVE gcd(_, _)
gcd(a, b) == IF b = 0 THEN a ELSE gcd(b, a % b)

RECURSIVE gcdAll(_)
gcdAll(xs) ==
    IF Len(xs) = 0 THEN 0
    ELSE IF Len(xs) = 1 THEN xs[1]
    ELSE gcd(gcdAll(SubSeq(xs, 1, Len(xs) \div 2)), gcdAll(SubSeq(xs, (Len(xs) \div 2) + 1, Len(xs))))

\* the gaps counted in their greatest common unit
scaled(gaps) == [i \in 1..Len(gaps) |-> gaps[i] \div gcdAll(gaps)]

\* at most 8 gaps that sum to at most 1000 of their common units, and whose
\* cv is not 0.5 unless the doubles hold it exactly. With m gaps g of sum
\* S, cv < 0.5 reads 4 * SUM (m * g - S)^2 < m * S^2; the two sides are
\* whole numbers below 2^31, so that, where they differ, cv^2 is at least
\* 2^-31 of itself away from 1/4, while the roundings of the doubles move
\* it by less than 2^-45 of itself. Where they are equal, the average is a
\* whole number of milliseconds and the sum is below 2^28, every value of
\* the computation is a multiple of 1/4 below 2^53, none is rounded, and
\* cv is 0.5.
wholeNumbersDecide(gaps) ==
    /\ Len(gaps) <= 8
    /\ sum(scaled(gaps)) <= 1000
    /\ LET g == scaled(gaps)
           m == Len(g)
           S == sum(g)
       IN \/ 4 * sum([i \in 1..m |-> (m * g[i] - S) * (m * g[i] - S)]) # m * S * S
          \/ sum(gaps) % m = 0 /\ sum(gaps) < 268435456

exactCvBelowHalf(gaps) ==
    LET g == scaled(gaps)
        m == Len(g)
        S == sum(g)
    IN 4 * sum([i \in 1..m |-> (m * g[i] - S) * (m * g[i] - S)]) < m * S * S

\* cv < 0.5 with cv = Math.sqrt(variance) / avgGap, computed in binary64 as
\* the code computes it: avgGap, the squares of the deviations, their sum
\* in the order of the gaps, the variance, its square root and the
\* quotient are each rounded. Where the roundings cannot change the
\* outcome, the comparison is made on the whole numbers. cv is NaN, and the comparison false, when a gap is NaN or the
\* gaps sum to 0 (0 / 0). Gaps that are numbers are the gaps of a sorted
\* series and not negative.
cvBelowHalf(gaps) ==
    /\ numbers(gaps)
    /\ sum(milliseconds(gaps)) > 0
    /\ IF wholeNumbersDecide(milliseconds(gaps))
       THEN exactCvBelowHalf(milliseconds(gaps))
       ELSE roundedCvBelowHalf(milliseconds(gaps))

\* the t with t <= mark count; a NaN does not
atOrBefore(times, mark, spanMs) ==
    {i \in 1..Len(times) : ~times[i].nan /\ times[i].ms - mark <= spanMs \div 5}

\* mutant: the window is the newest 20% of the span
burstTest_newestWindow(times) ==
    LET n == Len(times)
        spanMs == difference(times[1], times[n])
        eventsInLast20Pct ==
            Cardinality({i \in 1..n : ~times[i].nan /\ times[1].ms - times[i].ms <= spanMs.ms \div 5})
    IN ~spanMs.nan /\ 5 * eventsInLast20Pct > 4 * n /\ spanMs.ms > HourMs

\* eventsInFirst20Pct / times.length > 0.8 && spanHours > 1, where
\* eventsInFirst20Pct counts the t with t <= times[last] + spanMs * 0.2,
\* that is t - times[last] <= spanMs / 5 rounded down for whole
\* milliseconds, and k / n > 0.8 is 5 * k > 4 * n.
\* spanMs is NaN, and the test false, when the first or the last time is.
burstTest(times) ==
    LET n == Len(times)
        spanMs == difference(times[1], times[n])
        eventsInFirst20Pct == Cardinality(atOrBefore(times, times[n].ms, spanMs.ms))
    IN ~spanMs.nan /\ 5 * eventsInFirst20Pct > 4 * n /\ spanMs.ms > HourMs

\* mutant: more than five points are asked for
steadyTest_moreThanFive(times) == Len(times) > 5 /\ cvBelowHalf(gapsOf(times))

\* cv < 0.5 && times.length >= 5
steadyTest(times) == Len(times) >= 5 /\ cvBelowHalf(gapsOf(times))

\* m * maxGap > factor * S for m gaps of sum S, on the whole numbers; the
\* products are taken digit by digit where they pass 2^31 - 1
longGap(m, maxGap, S, factor) ==
    IF S <= 2147483647 \div factor /\ maxGap <= 2147483647 \div m
    THEN m * maxGap > factor * S
    ELSE less(product(natural(factor), natural(S)), product(natural(m), natural(maxGap)))

\* mutant: the longest gap is compared with four times the average
regressionTest_fourTimes(times) ==
    LET gaps == gapsOf(times)
    IN /\ numbers(gaps)
       /\ longGap(Len(gaps), max(milliseconds(gaps)), sum(milliseconds(gaps)), 4)
       /\ Len(times) >= 3

\* maxGap > avgGap * 5 && times.length >= 3, that is m * maxGap > 5 * S
\* (the products are whole numbers, and where they are equal avgGap * 5
\* rounds to maxGap); with a gap that is NaN both maxGap and avgGap are
\* NaN and the test is false
regressionTest(times) ==
    LET gaps == gapsOf(times)
    IN /\ numbers(gaps)
       /\ longGap(Len(gaps), max(milliseconds(gaps)), sum(milliseconds(gaps)), 5)
       /\ Len(times) >= 3

\* mutant: the burst test is tried after the steady and regression tests
classify_burstLast(times) ==
    IF steadyTest(times) THEN "steady"
    ELSE IF regressionTest(times) THEN "regression"
    ELSE IF burstTest(times) THEN "burst"
    ELSE "sporadic"

\* the tests in the order of the code, the first that holds decides
classify(times) ==
    IF burstTest(times) THEN "burst"
    ELSE IF steadyTest(times) THEN "steady"
    ELSE IF regressionTest(times) THEN "regression"
    ELSE "sporadic"

\* mutant: only the empty list is short of data, a single timestamp is sporadic
detectTemporalPattern_onlyEmpty(ts) ==
    IF Len(ts) < 1 THEN [pattern |-> "unknown"]
    ELSE IF Len(ts) = 1 THEN [pattern |-> "sporadic"]
    ELSE [pattern |-> classify(sortedTimesOf(ts))]

\* the pattern of the verdict; the description text is not modelled
detectTemporalPattern(ts) ==
    IF Len(ts) < 2 THEN [pattern |-> "unknown"]
    ELSE [pattern |-> classify(sortedTimesOf(ts))]

-----------------------------------------------------------------------------
(* cross_correlate: queries per project and key, de-duplication, timeline *)

\* queries.slice(i, i + 6) and i += 6
BatchSize == 6

\* an absent optional string and the empty string are both falsy
Falsy(s) == s = ""

\* mutant: both identifiers are asked for
usageError_eitherMissing(traceId, runId) == Falsy(traceId) \/ Falsy(runId)

\* if (!traceId && !runId)
usageError(traceId, runId) == Falsy(traceId) /\ Falsy(runId)

\* one query per project and supplied key, project by project, trace before run
RECURSIVE buildQueries(_, _, _)
buildQueries(projects, traceId, runId) ==
    IF projects = <<>> THEN <<>>
    ELSE (IF Falsy(traceId) THEN <<>>
          ELSE <<[project |-> Head(projects), query |-> [key |-> "trace_id", value |-> traceId]]>>)
         \o (IF Falsy(runId) THEN <<>>
             ELSE <<[project |-> Head(projects), query |-> [key |-> "run_id", value |-> runId]]>>)
         \o buildQueries(Tail(projects), traceId, runId)

\* mutant: every remaining query is issued at once
batch_allRemaining(qs, i) == {q \in 1..Len(qs) : q > i}

\* the positions of queries.slice(i, i + 6), counted from 1
batch(qs, i) == {q \in 1..Len(qs) : q > i /\ q <= i + BatchSize}

NotStarted == [state |-> "notStarted", issues |-> <<>>]

InFlight == [state |-> "inFlight", issues |-> <<>>]

Rejected == [state |-> "rejected", issues |-> <<>>]

Fulfilled(issues) == [state |-> "fulfilled", issues |-> issues]

\* mutant: without the inner catch the rejection of sentryFetch is that of the query
queryPromise_noCatch(q, fetch) ==
    [rejected |-> fetch.state = "rejected",
     value |-> [project |-> q.project, query |-> q.query, issues |-> fetch.issues]]

\* the promise of one element of batch.map: fulfilled with the issues that
\* sentryFetch returned, and fulfilled with no issues when sentryFetch threw
queryPromise(q, fetch) ==
    [rejected |-> FALSE,
     value |-> [project |-> q.project, query |-> q.query,
                issues |-> IF fetch.state = "rejected" THEN <<>> ELSE fetch.issues]]

\* String(issue.id): the digits of a number and the text of a string
String(id) == id.text

\* (issue.project)?.slug, with "" for undefined
slugOf(issue) == IF issue.project.present THEN issue.project.slug ELSE ""

\* the fields of an issue that the timeline keeps; the texts and counters
\* copied along with them (shortId, title, culprit, level, count, firstSeen)
\* are not modelled
timelineEntry(issue) ==
    [id |-> issue.id, project |-> slugOf(issue), lastSeen |-> issue.lastSeen]

RECURSIVE flatten(_)
flatten(perQuery) ==
    IF perQuery = <<>> THEN <<>> ELSE Head(perQuery).issues \o flatten(Tail(perQuery))

\* mutant: a later issue of the same id replaces the retained one
RECURSIVE dedupe_lastWins(_, _)
dedupe_lastWins(issues, seenIds) ==
    IF issues = <<>> THEN <<>>
    ELSE LET last == issues[Len(issues)]
             front == [i \in 1..(Len(issues) - 1) |-> issues[i]]
         IN IF String(last.id) \in seenIds THEN dedupe_lastWins(front, seenIds)
            ELSE dedupe_lastWins(front, seenIds \cup {String(last.id)}) \o <<timelineEntry(last)>>

\* the loop over results and their issues: an issue is kept when its id,
\* as a string, has not been seen
RECURSIVE dedupeLoop(_, _, _, _)
dedupeLoop(state, issues, from, to) ==
    IF Len(state.allIssues) > to \/ from >= to THEN state
    ELSE IF to - from = 1
    THEN IF String(issues[to].id) \in state.seenIds THEN state
         ELSE [allIssues |-> Append(state.allIssues, timelineEntry(issues[to])),
               seenIds |-> state.seenIds \cup {String(issues[to].id)}]
    ELSE LET half == from + ((to - from) \div 2)
         IN dedupeLoop(dedupeLoop(state, issues, from, half), issues, half, to)

dedupe(issues, seenIds) ==
    dedupeLoop([allIssues |-> <<>>, seenIds |-> seenIds], issues, 0, Len(issues)).allIssues

\* new Date(entry.lastSeen).getTime()
lastSeenTime(entry) == getTime(entry.lastSeen)

\* mutant: the comparison is turned round, the oldest entry comes first
sortByLastSeen_ascending(entries) ==
    LET time(entry) == [nan |-> lastSeenTime(entry).nan, ms |-> 0 - lastSeenTime(entry).ms]
        sorted == arraySort([i \in 1..Len(entries) |-> [key |-> time(entries[i]), entry |-> entries[i]]])
    IN [i \in 1..Len(entries) |-> sorted[i].entry]

\* allIssues.sort((a, b) => time(b) - time(a)): the comparator answers NaN,
\* taken as 0, for an entry whose lastSeen does not parse, and the order is
\* the one the sort arrives at with these answers
sortByLastSeen(entries) ==
    LET sorted == arraySort([i \in 1..Len(entries) |->
                                [key |-> lastSeenTime(entries[i]), entry |-> entries[i]]])
    IN [i \in 1..Len(entries) |-> sorted[i].entry]

\* mutant: the projects are not reduced to distinct ones
RECURSIVE distinctServices_repeated(_, _)
distinctServices_repeated(entries, seen) ==
    IF entries = <<>> THEN <<>>
    ELSE IF Falsy(Head(entries).project) THEN distinctServices_repeated(Tail(entries), seen)
    ELSE <<Head(entries).project>> \o distinctServices_repeated(Tail(entries), seen)

\* the Set filled from the projects after place from up to place to, in
\* the order of their first insertion
RECURSIVE setOfProjects(_, _, _, _)
setOfProjects(set, entries, from, to) ==
    IF Len(set.order) > to \/ from >= to THEN set
    ELSE IF to - from = 1
    THEN IF Falsy(entries[to].project) \/ entries[to].project \in set.members THEN set
         ELSE [order |-> Append(set.order, entries[to].project),
               members |-> set.members \cup {entries[to].project}]
    ELSE LET half == from + ((to - from) \div 2)
         IN setOfProjects(setOfProjects(set, entries, from, half), entries, half, to)

\* [...new Set(allIssues.map(i => i.project).filter(Boolean))]
distinctServices(entries, seen) ==
    setOfProjects([order |-> <<>>, members |-> seen], entries, 0, Len(entries)).order

\* the analysis text: its opening words and the services it names
analysisOf(services) ==
    IF Len(services) > 1
    THEN [text |-> "Cross-service error cascade detected across", services |-> services]
    ELSE IF Len(services) = 1
    THEN [text |-> "Errors isolated to", services |-> <<services[1]>>]
    ELSE [text |-> "No errors found for this trace/run across any project.", services |-> <<>>]

\* the object handed to json(): lines 78-108
correlate(traceId, runId, perQuery) ==
    LET allIssues == sortByLastSeen(dedupe(flatten(perQuery), {}))
        services == distinctServices(allIssues, {})
    IN [correlation |-> [traceId |-> traceId, runId |-> runId],
        totalIssues |-> Len(allIssues),
        affectedServices |-> services,
        cascadeDetected |-> Len(services) > 1,
        timeline |-> allIssues,
        analysis |-> analysisOf(services)]

NoCorrelation ==
    [correlation |-> [traceId |-> "", runId |-> ""], totalIssues |-> 0,
     affectedServices |-> <<>>, cascadeDetected |-> FALSE, timeline |-> <<>>,
     analysis |-> [text |-> "", services |-> <<>>]]

\* err(e): the text content and the isError flag; an error carries no data
err(message) == [isError |-> TRUE, text |-> "Error: " \o message]

\* json(data): the text content is the serialised object, kept here as the object
json(data) == [isError |-> FALSE, text |-> "", data |-> data]

-----------------------------------------------------------------------------
(* openmeter_outbox_health: anomalies and recommendations from the counters *)

DigitValue ==
    [c \in {"0", "1", "2", "3", "4", "5", "6", "7", "8", "9"} |->
        CASE c = "0" -> 0 [] c = "1" -> 1 [] c = "2" -> 2 [] c = "3" -> 3 [] c = "4" -> 4
          [] c = "5" -> 5 [] c = "6" -> 6 [] c = "7" -> 7 [] c = "8" -> 8 [] c = "9" -> 9]

\* parseInt of a string of decimal digits, as COUNT(*) comes back from
\* the database: the digits from the left, ten times the value so far plus
\* the next digit
RECURSIVE parseDigits(_, _)
parseDigits(chars, acc) ==
    IF chars = <<>> \/ Head(chars) \notin DOMAIN DigitValue THEN acc
    ELSE parseDigits(Tail(chars), 10 * acc + DigitValue[Head(chars)])

parseInt(chars) == parseDigits(chars, 0)

\* value || '0': a missing column and the empty string count as '0'
orZero(chars) == IF chars = <<>> THEN <<"0">> ELSE chars

NoRow == [pending |-> <<>>, sent |-> <<>>, dead_letter |-> <<>>, leased |-> <<>>, total |-> <<>>]

\* queueResult.rows[0] || {}
firstRow(rows) == IF rows = <<>> THEN NoRow ELSE rows[1]

\* stuckResult.rows[0]?.stuck_count || '0'
stuckCount(rows) == IF rows = <<>> THEN <<"0">> ELSE orZero(rows[1].stuck_count)

\* mutant: a queue as deep as the threshold is reported too
highQueueDepth_atThreshold(pending, threshold) == pending >= threshold

\* pending > threshold
highQueueDepth(pending, threshold) == pending > threshold

\* the anomaly texts: their label and the numbers they quote
Anomaly(label, count, limit) == [label |-> label, count |-> count, limit |-> limit]

\* the recommendations of a snapshot with anomalies: retry for dead letters,
\* worker restart for stuck leases, tuning for a deep queue, in this order
recommendationsFor(pending, deadLetter, stuck, threshold) ==
    (IF deadLetter > 0 THEN <<"Use openmeter_dead_letter_retry to retry failed events">> ELSE <<>>)
    \o (IF stuck > 0 THEN <<"Check outbox worker process - may need restart">> ELSE <<>>)
    \o (IF highQueueDepth(pending, threshold)
        THEN <<"Consider increasing batch_size or reducing interval_ms">> ELSE <<>>)

\* the object handed to json(): counters parsed, the four checks in their
\* order, healthy, recommendations
analyzeOutbox(metering, hours, queueRows, stuckRows) ==
    LET threshold == metering.queueDepthThreshold
        dlThreshold == metering.deadLetterThreshold
        queue == firstRow(queueRows)
        pending == parseInt(orZero(queue.pending))
        deadLetter == parseInt(orZero(queue.dead_letter))
        stuck == parseInt(stuckCount(stuckRows))
        sent == parseInt(orZero(queue.sent))
        total == parseInt(orZero(queue.total))
        anomalies ==
            (IF highQueueDepth(pending, threshold)
             THEN <<Anomaly("HIGH QUEUE DEPTH", pending, threshold)>> ELSE <<>>)
            \o (IF deadLetter > 0 THEN <<Anomaly("DEAD LETTERS", deadLetter, dlThreshold)>> ELSE <<>>)
            \o (IF stuck > 0 THEN <<Anomaly("STUCK LEASES", stuck, 0)>> ELSE <<>>)
            \o (IF sent = 0 /\ total > 0 THEN <<Anomaly("NO EVENTS SENT", 0, 0)>> ELSE <<>>)
    IN [timeRange |-> hours,
        queue |-> [total |-> total, pending |-> pending, sent |-> sent, deadLetter |-> deadLetter,
                   currentlyLeased |-> parseInt(orZero(queue.leased)), stuckLeases |-> stuck],
        anomalies |-> anomalies,
        healthy |-> Len(anomalies) = 0,
        recommendations |->
            IF Len(anomalies) > 0 THEN recommendationsFor(pending, deadLetter, stuck, threshold)
            ELSE <<"Outbox is healthy - all metrics normal">>]

\* the handler: a database that cannot be reached ends the call in the
\* catch, and so does a rejection of any of the four queries, which
\* Promise.all passes on; throughputPerHour and topErrors are passed
\* through and not modelled
outboxHealth(cfg, hours, db) ==
    IF ~db.up THEN err("connect ECONNREFUSED")
    ELSE IF db.failed # {} THEN err("relation does not exist")
    ELSE json(analyzeOutbox(cfg.metering, hours, db.queueRows, db.stuckRows))

\* the result of openmeter_dead_letter_retry on the rowCount of its UPDATE
deadLetterRetry(rowCount) ==
    [retriedCount |-> rowCount,
     note |-> IF rowCount > 0
              THEN "Events reset - outbox worker will pick them up on next tick."
              ELSE "No dead-letter events found to retry."]

-----------------------------------------------------------------------------
(* openmeter_usage_anomalies: ratio of recent to baseline usage per account *)

\* SQL NULL, which node-postgres hands over as null
Null == <<>>

Digits == <<"0", "1", "2", "3", "4", "5", "6", "7", "8", "9">>

\* the text of a non-negative numeric without decimals, as node-postgres
\* returns SUM(total_tokens)
RECURSIVE digitsOf(_)
digitsOf(n) == IF n < 10 THEN <<Digits[n + 1]>> ELSE Append(digitsOf(n \div 10), Digits[(n % 10) + 1])

\* ROUND((r.recent_tokens / b.avg_tokens)::numeric, 2): the quotient in
\* hundredths, a half rounded away from zero
roundedRatio(recent, baseline) == (200 * recent + baseline) \div (2 * baseline)

\* the text of a numeric of scale 2, given in hundredths: 300 is "3.00"
numericText(hundredths) ==
    digitsOf(hundredths \div 100)
        \o <<".", Digits[((hundredths \div 10) % 10) + 1], Digits[(hundredths % 10) + 1]>>

\* the row of the FULL OUTER JOIN for one org: the sums as text, NULL for
\* the side without events, token_ratio by the CASE of the query
usageRow(account) ==
    [org_id |-> account.org,
     recent_tokens |-> IF account.recent.present THEN digitsOf(account.recent.tokens) ELSE Null,
     baseline_tokens |-> IF account.baseline.present THEN digitsOf(account.baseline.tokens) ELSE Null,
     token_ratio |->
        IF account.baseline.present /\ account.baseline.tokens > 0 /\ account.recent.present
        THEN numericText(roundedRatio(account.recent.tokens, account.baseline.tokens))
        ELSE Null]

\* the position of the first "." of a text, or one past its end
RECURSIVE pointAt(_, _)
pointAt(chars, i) ==
    IF i > Len(chars) \/ chars[i] = "." THEN i ELSE pointAt(chars, i + 1)

\* parseFloat of a decimal text, in hundredths: the digits before the
\* point, then up to two decimals
parseFloat(chars) ==
    LET p == pointAt(chars, 1)
        decimals == SubSeq(chars, p + 1, Len(chars))
        tenths == IF Len(decimals) >= 1 /\ decimals[1] \in DOMAIN DigitValue
                  THEN DigitValue[decimals[1]] ELSE 0
        hundredths == IF Len(decimals) >= 2 /\ decimals[1] \in DOMAIN DigitValue
                         /\ decimals[2] \in DOMAIN DigitValue
                      THEN DigitValue[decimals[2]] ELSE 0
    IN 100 * parseInt(SubSeq(chars, 1, p - 1)) + 10 * tenths + hundredths

\* the filter on result.rows: the ratio parsed from the text of the row
\* against the threshold (in hundredths), or a baseline without recent usage
isAnomaly(row, spikeThreshold) ==
    \/ parseFloat(orZero(row.token_ratio)) >= spikeThreshold
    \/ (row.baseline_tokens # Null /\ row.recent_tokens = Null)

\* the type of a reported row: 'DROP (no recent usage)', or
\* `SPIKE (${token_ratio}x baseline)` with the text of the ratio
anomalyType(row) ==
    IF row.recent_tokens = Null THEN [label |-> "DROP (no recent usage)", ratio |-> Null]
    ELSE [label |-> "SPIKE", ratio |-> row.token_ratio]

\* { ...a, type }
typedAnomaly(row) ==
    [org_id |-> row.org_id, recent_tokens |-> row.recent_tokens,
     baseline_tokens |-> row.baseline_tokens, token_ratio |-> row.token_ratio,
     type |-> anomalyType(row)]

\* the object handed to json(): the reported rows with their type, and all rows
detectUsageAnomalies(rows, spikeThreshold) ==
    LET flagged(row) == isAnomaly(row, spikeThreshold)
        anomalies == SelectSeq(rows, flagged)
    IN [anomaliesFound |-> Len(anomalies),
        anomalies |-> [i \in 1..Len(anomalies) |-> typedAnomaly(anomalies[i])],
        allOrgs |-> rows]

\* the handler: the query over the metering table, then the analysis; a
\* database that cannot be queried ends the call in the catch
usageAnomalies(table, spikeThreshold) ==
    IF ~table.up THEN err("connect ECONNREFUSED")
    ELSE json(detectUsageAnomalies([i \in 1..Len(table.accounts) |-> usageRow(table.accounts[i])],
                                   spikeThreshold))

-----------------------------------------------------------------------------
(* Webhook server: auto-resolve decision, rate limiter, signature check *)

\* the characters of a string that the code builds or copies
chars(s) == [i \in 1..Len(s) |-> SubSeq(s, i, i)]

\* diagnosis.summary as one string: `[${severity.toUpperCase()}] ${category}: ${input.title}`
summaryText(diag) ==
    chars(diag.summary[1]) \o chars(diag.summary[2]) \o chars(diag.summary[3])
        \o chars(diag.summary[4]) \o chars(diag.summary[5]) \o diag.summaryTitle

\* diagnosis.rootCause as one string: the text of the pattern or family, or
\* `Application error in ${culprit}`
rootCauseText(diag) ==
    chars(diag.rootCause[1]) \o (IF Len(diag.rootCause) > 1 THEN diag.rootCause[2] ELSE <<>>)

\* config.knownBugs.some(b => b.fixed && b.keywords.some(kw =>
\*   summary.toLowerCase().includes(kw) || rootCause.toLowerCase().includes(kw)))
isFixed(knownBugs, diag) ==
    \E b \in DOMAIN knownBugs :
        /\ knownBugs[b].fixed
        /\ \E k \in DOMAIN knownBugs[b].keywords :
            \/ includes(toLowerCase(summaryText(diag)), knownBugs[b].keywords[k])
            \/ includes(toLowerCase(rootCauseText(diag)), knownBugs[b].keywords[k])

\* diagnosis.suggestions.some(s => s.action === 'known_bug')
hasKnownBugSuggestion(diag) ==
    \E i \in DOMAIN diag.suggestions : diag.suggestions[i].action = "known_bug"

\* autoResolve.categories.includes(diagnosis.category)
categoryListed(categories, category) == \E i \in DOMAIN categories : categories[i] = category

Decision(shouldResolve, reason, action) ==
    [shouldResolve |-> shouldResolve, reason |-> reason, action |-> action]

\* mutant: the severity is not looked at
shouldAutoResolve_anySeverity(cfg, diag) ==
    LET autoResolve == cfg.webhook.autoResolve
    IN IF ~autoResolve.enabled THEN Decision(FALSE, <<"Auto-resolve disabled in config">>, "none")
       ELSE IF hasKnownBugSuggestion(diag) /\ isFixed(cfg.knownBugs, diag)
       THEN Decision(TRUE, <<"Matches a known bug marked as fixed">>, "resolve")
       ELSE IF categoryListed(autoResolve.categories, diag.category)
       THEN Decision(TRUE, <<"Category \"", diag.category, "\" in auto-resolve list, severity is ",
                            diag.severity>>, "resolve")
       ELSE Decision(FALSE, <<"Category not in auto-resolve list">>, "none")

\* the decision: disabled, then the severity, then a known bug marked as
\* fixed, then the category list; a reason is the list of the parts of its
\* template, the dash of the severity reason written " - "
shouldAutoResolve(cfg, diag) ==
    LET autoResolve == cfg.webhook.autoResolve
    IN IF ~autoResolve.enabled THEN Decision(FALSE, <<"Auto-resolve disabled in config">>, "none")
       ELSE IF diag.severity = "critical" \/ diag.severity = "high"
       THEN Decision(FALSE, <<"Severity is ", diag.severity, " - requires human review">>, "none")
       ELSE IF hasKnownBugSuggestion(diag) /\ isFixed(cfg.knownBugs, diag)
       THEN Decision(TRUE, <<"Matches a known bug marked as fixed">>, "resolve")
       ELSE IF categoryListed(autoResolve.categories, diag.category)
       THEN Decision(TRUE, <<"Category \"", diag.category, "\" in auto-resolve list, severity is ",
                            diag.severity>>, "resolve")
       ELSE Decision(FALSE, <<"Category not in auto-resolve list">>, "none")

\* half an hour in milliseconds, the step of the clock
TickMs == 1800000

\* RateLimiter.prune: the records of the last hour stay
prune(records, time) == SelectSeq(records, LAMBDA r : r.timestamp > time - HourMs)

\* RateLimiter.canResolve, after its prune
canResolve(records, time, maxPerHour) == Len(prune(records, time)) < maxPerHour

\* RateLimiter.record
record(records, issueId, category, time) ==
    Append(records, [issueId |-> issueId, category |-> category, timestamp |-> time])

\* the parts of a signature header: the literal 'sha256=' and a hex digest
Sha256Prefix == [kind |-> "sha256=", key |-> "", message |-> <<>>]

\* createHmac('sha256', secret).update(rawBody).digest('hex'): the digest
\* is determined by the key and the message and differs when either differs
hmacSha256Hex(key, rawBody) == [kind |-> "hex", key |-> key, message |-> rawBody]

\* signatureHeader.replace('sha256=', ''): the first occurrence is removed
RECURSIVE replacePrefix(_)
replacePrefix(header) ==
    IF header = <<>> THEN <<>>
    ELSE IF Head(header) = Sha256Prefix THEN Tail(header)
    ELSE <<Head(header)>> \o replacePrefix(Tail(header))

\* a header text of 64 characters, 63 hex digits and one character outside
\* ASCII, which UTF-8 encodes in two bytes
Latin1Text == [kind |-> "latin1", key |-> "", message |-> <<>>]

\* string.length of a header text: 7 for the literal, 64 for a digest in
\* hex and for the text outside ASCII
RECURSIVE textLength(_)
textLength(header) ==
    IF header = <<>> THEN 0
    ELSE (IF Head(header).kind = "sha256=" THEN 7 ELSE 64) + textLength(Tail(header))

\* Buffer.from(text).length: the bytes of the text in UTF-8
RECURSIVE byteLength(_)
byteLength(header) ==
    IF header = <<>> THEN 0
    ELSE (CASE Head(header).kind = "sha256=" -> 7
            [] Head(header).kind = "hex" -> 64
            [] Head(header).kind = "latin1" -> 65) + byteLength(Tail(header))

\* verifySentrySignature: true without a secret, false when the received
\* text has not the length of the expected digest; timingSafeEqual throws a
\* RangeError on buffers of different byte lengths and else compares them
verifySentrySignature(rawBody, signatureHeader, key) ==
    IF key = "" THEN [threw |-> FALSE, value |-> TRUE]
    ELSE LET expected == <<hmacSha256Hex(key, rawBody)>>
             received == replacePrefix(signatureHeader)
         IN IF textLength(expected) # textLength(received) THEN [threw |-> FALSE, value |-> FALSE]
            ELSE IF byteLength(expected) # byteLength(received)
            THEN [threw |-> TRUE, value |-> FALSE]
            ELSE [threw |-> FALSE, value |-> expected = received]

\* the signature check of the request handler throws into its catch
threw(rawBody, signatureHeader, key) ==
    key # "" /\ verifySentrySignature(rawBody, signatureHeader, key).threw

\* the request is let through to JSON.parse and handleSentryWebhook
accepted(rawBody, signatureHeader, key) ==
    ~(key # "" /\ ~verifySentrySignature(rawBody, signatureHeader, key).value)

\* process.env without any of the variables the code reads
NoEnv == [SENTRY_WEBHOOK_SECRET |-> "", DATABASE_URL |-> "", AGENT_CONFIG_PATH |-> "",
          SENTRY_AUTH_TOKEN |-> "", SENTRY_ORG |-> ""]

\* sentryFetch before its fetch: the message of the error it throws without
\* a token or without an organisation, "" when it goes on to the fetch
sentryFetchError(cfg, environment) ==
    IF environment.SENTRY_AUTH_TOKEN = "" THEN "SENTRY_AUTH_TOKEN env var not set"
    ELSE IF environment.SENTRY_ORG = "" /\ cfg.sentry.defaultOrg = ""
    THEN "SENTRY_ORG env var not set and no defaultOrg in config"
    ELSE ""

\* the messages of the errors sentryFetch throws after its fetch: a response
\* that is not ok, and a request that did not get through
SentryFailures == {"Sentry 404 Not Found: {\"detail\":\"not found\"}", "fetch failed"}

\* startWebhookServer: the secret of the configuration, or the environment
\* variable when the configuration says 'from-env'
serverSecret(cfg, environment) ==
    IF cfg.webhook.sentrySecret = "from-env" THEN environment.SENTRY_WEBHOOK_SECRET
    ELSE cfg.webhook.sentrySecret

\* the DiagnosisInput built from the issue of the payload and from the
\* latest event: String(x || ''), Number(x || 0), level 'error' and project
\* 'unknown' when missing
diagnosisInputOf(issue, stacktrace, breadcrumbs, tags) ==
    [title |-> issue.title, culprit |-> issue.culprit,
     count |-> issue.count, userCount |-> issue.userCount,
     level |-> IF issue.level = "" THEN "error" ELSE issue.level,
     stacktrace |-> stacktrace, breadcrumbs |-> breadcrumbs, tags |-> tags,
     firstSeen |-> issue.firstSeen, lastSeen |-> issue.lastSeen,
     project |-> IF issue.project = "" THEN "unknown" ELSE issue.project]

-----------------------------------------------------------------------------
(* Configuration loader: defaults, files, deepMerge and the cache *)

\* JSON values. An object carries a value per key, an array its items;
\* numbers are kept as their literal
Obj(fields) == [kind |-> "object", val |-> fields]

Arr(items) == [kind |-> "array", val |-> items]

Str(text) == [kind |-> "string", val |-> text]

Num(literal) == [kind |-> "number", val |-> literal]

JsonNull == [kind |-> "null", val |-> ""]

\* JavaScript truthiness of a JSON value
truthy(v) ==
    CASE v.kind = "null" -> FALSE
      [] v.kind = "string" -> v.val # ""
      [] v.kind = "number" -> v.val \notin {"0", "0.0"}
      [] OTHER -> TRUE

\* Object.keys of the values the loader merges: objects and numbers
ownKeys(v) == IF v.kind = "object" THEN DOMAIN v.val ELSE {}

DEFAULT_CONFIG ==
    Obj([platform |-> Obj([name |-> Str("app"), envVar |-> Str("NODE_ENV")]),
         sentry |-> Obj([defaultOrg |-> Str(""), projects |-> Arr(<<>>)]),
         services |-> Obj(<<>>),
         conventions |-> Obj([spanNames |-> Obj(<<>>), attributeKeys |-> Obj(<<>>),
                              rules |-> Arr(<<>>)]),
         dependencies |-> Obj(<<>>),
         traceFlow |-> Arr(<<>>),
         sampling |-> Obj([production |-> Num("0.1"), staging |-> Num("1.0"),
                           development |-> Num("1.0"), test |-> Num("0.0")]),
         runbooks |-> Obj(<<>>),
         diagnosisPatterns |-> Arr(<<>>),
         knownBugs |-> Arr(<<>>),
         metering |-> Obj([outboxTable |-> Str("openmeter_event_ledger"),
                           deadLetterThreshold |-> Num("10"),
                           queueDepthThreshold |-> Num("500")])])

\* a copy of base in which every key of override is merged when both values
\* are objects and replaced otherwise
RECURSIVE deepMerge(_, _)
deepMerge(base, override) ==
    Obj([key \in ownKeys(base) \cup ownKeys(override) |->
           IF key \notin ownKeys(override) THEN base.val[key]
           ELSE IF /\ key \in ownKeys(base)
                   /\ truthy(base.val[key]) /\ truthy(override.val[key])
                   /\ base.val[key].kind = "object" /\ override.val[key].kind = "object"
                THEN deepMerge(base.val[key], override.val[key])
                ELSE override.val[key]])

\* the texts of the configuration files of the model
PackageJsonText == "{\"platform\":{\"name\":\"lucid\"},\"knownBugs\":[\"LUCID-1\"]}"

CustomJsonText == "{\"platform\":{\"envVar\":\"LUCID_ENV\"},\"metering\":{\"queueDepthThreshold\":50}}"

RawJsonText == "{\"metering\":{\"outboxTable\":\"ledger\"},\"knownBugs\":[]}"

BrokenJsonText == "{\"platform\":"

NullJsonText == "null"

\* JSON.parse on these texts; the broken text raises a SyntaxError
JSONparse(text) ==
    CASE text = PackageJsonText ->
           [ok |-> TRUE, value |-> Obj([platform |-> Obj([name |-> Str("lucid")]),
                                        knownBugs |-> Arr(<<Str("LUCID-1")>>)])]
      [] text = CustomJsonText ->
           [ok |-> TRUE, value |-> Obj([platform |-> Obj([envVar |-> Str("LUCID_ENV")]),
                                        metering |-> Obj([queueDepthThreshold |-> Num("50")])])]
      [] text = RawJsonText ->
           [ok |-> TRUE, value |-> Obj([metering |-> Obj([outboxTable |-> Str("ledger")]),
                                        knownBugs |-> Arr(<<>>)])]
      [] text = NullJsonText -> [ok |-> TRUE, value |-> JsonNull]
      [] OTHER -> [ok |-> FALSE, value |-> JsonNull]

NoFile == [exists |-> FALSE, text |-> ""]

File(text) == [exists |-> TRUE, text |-> text]

\* the parsed file, or null when it is missing or reading or parsing it fails
tryLoadJson(fs, path) ==
    IF path \in DOMAIN fs /\ fs[path].exists
    THEN IF JSONparse(fs[path].text).ok THEN JSONparse(fs[path].text).value ELSE JsonNull
    ELSE JsonNull

\* config/lucid.json under the package root, the file AGENT_CONFIG_PATH names
\* and the file the configPath of the plugin names; all are absolute, so
\* that path.resolve leaves them as they are
PackageConfigPath == "/app/config/lucid.json"

EnvConfigPath == "/etc/agent/config.json"

RawConfigPath == "/srv/openclaw/agent.json"

\* the argument of loadConfig: absent, or an object with some of the keys
\* configPath, sentryAuthToken, sentryOrg, databaseUrl
NoRaw == [given |-> FALSE, fields |-> <<>>]

Raw(fields) == [given |-> TRUE, fields |-> fields]

has(raw, key) == raw.given /\ key \in DOMAIN raw.fields

\* raw?.configPath ?? process.env.AGENT_CONFIG_PATH
customPath(raw, environment) ==
    IF has(raw, "configPath") THEN raw.fields.configPath ELSE environment.AGENT_CONFIG_PATH

\* the variables loadConfig sets from its argument where the environment
\* does not have them
envAfterLoad(raw, environment) ==
    [environment EXCEPT
       !.SENTRY_AUTH_TOKEN =
           IF has(raw, "sentryAuthToken") /\ raw.fields.sentryAuthToken # "" /\ @ = ""
           THEN raw.fields.sentryAuthToken ELSE @,
       !.SENTRY_ORG =
           IF has(raw, "sentryOrg") /\ raw.fields.sentryOrg # "" /\ @ = ""
           THEN raw.fields.sentryOrg ELSE @,
       !.DATABASE_URL =
           IF has(raw, "databaseUrl") /\ raw.fields.databaseUrl # "" /\ @ = ""
           THEN raw.fields.databaseUrl ELSE @]

\* _config when it is null, and a configuration object: object 0 is
\* DEFAULT_CONFIG itself, every other one was created by deepMerge
NotLoaded == [isNull |-> TRUE]

ConfigObject(object, value) == [isNull |-> FALSE, object |-> object, value |-> value]

\* the merge of loadConfig: the defaults, the packaged file over them, the
\* custom file over both; each deepMerge call creates one more object
merged(raw, fs, environment, created) ==
    LET defaultJson == tryLoadJson(fs, PackageConfigPath)
        first == IF truthy(defaultJson)
                 THEN [object |-> created + 1, value |-> deepMerge(DEFAULT_CONFIG, defaultJson)]
                 ELSE [object |-> 0, value |-> DEFAULT_CONFIG]
        afterFirst == IF truthy(defaultJson) THEN created + 1 ELSE created
        path == customPath(raw, environment)
        customJson == IF path # "" THEN tryLoadJson(fs, path) ELSE JsonNull
    IN  IF truthy(customJson)
        THEN [config |-> ConfigObject(afterFirst + 1, deepMerge(first.value, customJson)),
              created |-> afterFirst + 1]
        ELSE [config |-> ConfigObject(first.object, first.value), created |-> afterFirst]

\* loadConfig that merges on every call
loadConfig_uncached(cache, raw, fs, environment, created) ==
    LET m == merged(raw, fs, environment, created)
    IN  [returns |-> m.config, cache |-> m.config,
         env |-> envAfterLoad(raw, environment), created |-> m.created]

\* loadConfig: what it returns and what it leaves in _config, in the
\* environment and in the count of created objects
loadConfig(cache, raw, fs, environment, created) ==
    IF ~cache.isNull
    THEN [returns |-> cache, cache |-> cache, env |-> environment, created |-> created]
    ELSE LET m == merged(raw, fs, environment, created)
         IN  [returns |-> m.config, cache |-> m.config,
              env |-> envAfterLoad(raw, environment), created |-> m.created]

\* the message of the Error of getConfig, its dash written in ASCII
ConfigNotLoaded == "Config not loaded -- call loadConfig() first"

getConfig(cache) ==
    IF cache.isNull
    THEN [threw |-> TRUE, error |-> ConfigNotLoaded, returns |-> NotLoaded]
    ELSE [threw |-> FALSE, error |-> "", returns |-> cache]

resetConfig(cache) == NotLoaded

-----------------------------------------------------------------------------
(* Inputs *)

Date(ms) == [valid |-> TRUE, ms |-> ms]

InvalidDate == [valid |-> FALSE, ms |-> 0]

\* values of Date.now(), milliseconds from the origin
Clocks == {10000000}

Titles ==
    { <<>>, <<"b", "o", "o", "m">>, <<"N", "e", "t", "w", "o", "r", "k", " ", "t", "i", "m", "e", "o", "u", "t">>, <<"R", "e", "q", "u", "e", "s", "t", " ", "T", "i", "m", "e", "o", "u", "t">>, <<"a", "u", "t", "h", " ", "t", "i", "m", "e", "o", "u", "t">>,
      <<"U", "n", "a", "u", "t", "h", "o", "r", "i", "z", "e", "d", ":", " ", "r", "a", "t", "e", " ", "l", "i", "m", "i", "t">>, <<"4", "2", "9", " ", "t", "o", "o", " ", "m", "a", "n", "y", " ", "c", "o", "n", "n", "e", "c", "t", "i", "o", "n">>, <<"s", "c", "h", "e", "m", "a", " ", "o", "f", " ", "d", "a", "t", "a", "b", "a", "s", "e">>,
      <<"z", "o", "d", " ", "p", "a", "r", "s", "e", ":", " ", "h", "e", "a", "p", " ", "o", "o", "m">>, <<"d", "e", "a", "d", "l", "o", "c", "k", ":", " ", "o", "u", "t", " ", "o", "f", " ", "m", "e", "m", "o", "r", "y">>, <<"P", "a", "y", "m", "e", "n", "t", " ", "f", "a", "i", "l", "e", "d">>,
      <<"p", "a", "y", "m", "e", "n", "t", " ", "t", "i", "m", "e", "o", "u", "t">>, <<"B", "o", "o", "m", " ", "i", "n", " ", "p", "a", "y", "m", "e", "n", "t">>, <<"S", "t", "r", "i", "p", "e", " ", "w", "e", "b", "h", "o", "o", "k">> }

\* culprit and stack trace lines of a record
Locations ==
    { [culprit |-> <<>>, stacktrace |-> <<>>],
      [culprit |-> <<"p", "a", "y", ".", "t", "s">>, stacktrace |-> <<>>],
      [culprit |-> <<>>, stacktrace |-> << <<"T", "y", "p", "e", "E", "r", "r", "o", "r", ":", " ", "l", "e", "a", "k">> >>],
      [culprit |-> <<"J", "o", "b", ".", "r", "u", "n">>, stacktrace |-> << <<"E", "r", "r", "o", "r", ":", " ", "x">>, <<" ", " ", "a", "t", " ", "P", "a", "y", " ", "(", "a", ".", "t", "s", ":", "1", ")">> >>] }

\* records whose text varies, with one set of counters
TextInputs ==
    {[title |-> t, culprit |-> loc.culprit, stacktrace |-> loc.stacktrace,
      count |-> 50, userCount |-> 2, level |-> "error",
      breadcrumbs |-> <<>>, tags |-> <<>>,
      firstSeen |-> Date(1000000), lastSeen |-> Date(9000000), project |-> "api"] :
        t \in Titles, loc \in Locations}

Levels == {"fatal", "error", "warning", "info"}

\* counts on both sides of each threshold of the severity ladder
Counts == {0, 10, 11, 100, 101, 1000, 1001}

UserCounts == {0, 10, 11}

\* lastSeen just inside the hour before the clock, exactly one hour before it,
\* after it, and unparsable
LastSeens == {Date(10000000 - 3599999), Date(10000000 - 3600000), Date(10000000 + 5000), InvalidDate}

TagLists ==
    { <<>>,
      <<[key |-> "environment", value |-> "prod"], [key |-> "service", value |-> "worker"],
        [key |-> "service", value |-> "api"]>> }

\* records whose counters vary, with one text
CounterInputs ==
    {[title |-> <<"b", "o", "o", "m">>, culprit |-> <<>>, stacktrace |-> <<>>,
      count |-> n, userCount |-> u, level |-> l,
      breadcrumbs |-> <<[timestamp |-> "t0", category |-> "http", message |-> "GET /"]>>,
      tags |-> g, firstSeen |-> InvalidDate, lastSeen |-> d, project |-> ""] :
        n \in Counts, u \in UserCounts, l \in Levels, d \in LastSeens, g \in TagLists}

\* the instants of the events of a series: half-hour steps over two hours
GridMs == {k * 1800000 : k \in 0..4}

\* nine events one minute apart, then a tenth event two hours after the ninth
NineThenGap == [i \in 1..10 |-> Date(IF i <= 9 THEN (i - 1) * 60000 ELSE 8 * 60000 + 2 * HourMs)]

\* one event, then two hours later nine events one minute apart
GapThenNine == [i \in 1..10 |-> Date(IF i = 1 THEN 0 ELSE 2 * HourMs + (i - 2) * 60000)]

\* ten events one second apart: oldest first, newest first, and interleaved
TenEverySecond == [i \in 1..10 |-> Date((i - 1) * 1000)]

TenEverySecondNewestFirst == [i \in 1..10 |-> Date((10 - i) * 1000)]

TenEverySecondInterleaved == [i \in 1..10 |-> Date(((i * 3) % 10) * 1000)]

\* nine events in the first tenth of a 48-hour span, and one at its end
NineEarlyIn48h == [i \in 1..10 |-> Date(IF i <= 9 THEN (i - 1) * 1800000 ELSE 48 * HourMs)]

\* six events every ten minutes, in a scrambled order
SixEveryTenMinutes == [i \in 1..6 |-> Date(<<3, 0, 5, 2, 4, 1>>[i] * 600000)]

\* a single timestamp that does not parse, and a single one far from the origin
SingleUnparsable == <<InvalidDate>>

SingleFarAway == <<Date(48 * HourMs)>>

\* a timestamp that does not parse before, among and after four or five that
\* are one second apart
UnparsableFirst == <<InvalidDate, Date(1000), Date(2000), Date(3000), Date(4000)>>

UnparsableAmid == <<Date(1000), Date(2000), InvalidDate, Date(3000), Date(4000), Date(5000)>>

UnparsableLast == <<Date(4000), Date(3000), Date(2000), Date(1000), InvalidDate>>

\* a timestamp that does not parse, then eight events at the origin and one
\* two hours later
UnparsableThenBurst ==
    [i \in 1..10 |-> IF i = 1 THEN InvalidDate ELSE Date(IF i = 10 THEN 2 * HourMs ELSE 0)]

\* an event at two hours, a timestamp that does not parse, nine events at the origin
BurstAroundUnparsable ==
    [i \in 1..11 |-> IF i = 2 THEN InvalidDate ELSE Date(IF i = 1 THEN 2 * HourMs ELSE 0)]

\* series whose cv is 0.5: with gaps of 5, 2, 5, 3 and 1 times 700001 ms and
\* with gaps of 0, 1, 1, 1 and 1 times 700001 ms the average gap is no
\* binary64 number; with gaps of 1, 1, 3 and 3 seconds it is
HalfCvFiveGaps ==
    [i \in 1..6 |-> Date(<<0, 1, 4, 9, 11, 16>>[i] * 700001)]

HalfCvEqualGaps ==
    [i \in 1..6 |-> Date(<<0, 1, 2, 3, 4, 4>>[i] * 700001)]

HalfCvWholeAverage == [i \in 1..5 |-> Date(<<0, 3, 6, 7, 8>>[i] * 1000)]

ExampleSeries ==
    {NineThenGap, GapThenNine, TenEverySecond, TenEverySecondNewestFirst,
     TenEverySecondInterleaved, NineEarlyIn48h, SixEveryTenMinutes,
     SingleUnparsable, SingleFarAway,
     UnparsableFirst, UnparsableAmid, UnparsableLast, UnparsableThenBurst, BurstAroundUnparsable,
     HalfCvFiveGaps, HalfCvEqualGaps, HalfCvWholeAverage}

\* short series of timestamps that parse and that do not
MixedSeries == SeqsUpTo({InvalidDate, Date(0), Date(2 * HourMs)}, MaxMixed)

SeriesInputs ==
    {[i \in DOMAIN s |-> Date(s[i])] : s \in SeqsUpTo(GridMs, MaxPoints)}
        \cup MixedSeries \cup ExampleSeries

\* the identifiers of a cross_correlate call: none, either, both
Requests == {[traceId |-> t, runId |-> r] : t \in {"", "4bf92f"}, r \in {"", "run-1"}}

\* issues as the issue search returns them. Two issues carry the id 42, one
\* as a string under project api and one as a number under project worker;
\* one issue comes without a project; two issues share their lastSeen.
IssueApi42 ==
    [id |-> [type |-> "string", text |-> "42"],
     project |-> [present |-> TRUE, slug |-> "api"], lastSeen |-> Date(3000)]

IssueWorker42 ==
    [id |-> [type |-> "number", text |-> "42"],
     project |-> [present |-> TRUE, slug |-> "worker"], lastSeen |-> Date(1000)]

IssueWorker7 ==
    [id |-> [type |-> "string", text |-> "7"],
     project |-> [present |-> TRUE, slug |-> "worker"], lastSeen |-> Date(2000)]

IssueNoProject9 ==
    [id |-> [type |-> "string", text |-> "9"],
     project |-> [present |-> FALSE, slug |-> ""], lastSeen |-> Date(2000)]

\* an issue whose lastSeen does not parse
IssueUndated5 ==
    [id |-> [type |-> "string", text |-> "5"],
     project |-> [present |-> TRUE, slug |-> "api"], lastSeen |-> InvalidDate]

\* the issue lists a query may come back with
Responses ==
    {<<>>, <<IssueApi42>>, <<IssueWorker42>>, <<IssueWorker7>>, <<IssueNoProject9>>,
     <<IssueWorker7, IssueApi42>>, <<IssueUndated5>>, <<IssueWorker42, IssueUndated5, IssueApi42>>}

\* the issue lists of the calls that watch many projects
FewResponses == {<<>>, <<IssueApi42>>}

\* config.sentry.projects of a deployment with no, one and two watched projects
FewProjects == {<<>>, <<"api">>, <<"api", "worker">>}

\* and of deployments with three and four watched projects: with both
\* identifiers given they make six queries, one full batch, and eight
\* queries, one full batch and a batch of two
ManyProjects == {<<"api", "worker", "billing">>, <<"api", "worker", "billing", "auth">>}

\* queueDepthThreshold of the default configuration and of an operator's
QueueDepthThresholds == {500, 100}

\* the counters of the outbox table, as the strings COUNT(*) comes back as
PendingCounts == {<<"1", "0", "0">>, <<"1", "0", "1">>, <<"5", "0", "0">>, <<"5", "0", "1">>, <<"6", "0", "0">>}

\* the row of the queue query; the table may also give no row
QueueRows ==
    {<<>>} \cup
    {<<[pending |-> p, sent |-> s, dead_letter |-> d, leased |-> <<"0">>, total |-> t]>> :
        p \in PendingCounts, s \in {<<"0">>, <<"1", "0">>}, d \in {<<"0">>, <<"3">>},
        t \in {<<"0">>, <<"1", "0">>}}

\* the row of the stuck-lease query
StuckRows == {<<>>, <<[stuck_count |-> <<"0">>]>>, <<[stuck_count |-> <<"2">>]>>}

\* the lookback of the call: the default
Lookbacks == {24}

\* maxEvents of a dead-letter retry: the default
RetryLimits == {100}

\* result.rowCount of the UPDATE of a dead-letter retry
RetriedCounts == {0, 2}

\* the four queries of the outbox health call, in the order of Promise.all
OutboxQueries == {"queue", "rate", "stuck", "errors"}

\* the database at the time of a call: reachable with some counters, one of
\* its queries rejected (the rows are what the others return), or not
\* reachable
Databases ==
    {[up |-> TRUE, failed |-> {}, hours |-> h, queueRows |-> q, stuckRows |-> k] :
        h \in Lookbacks, q \in QueueRows, k \in StuckRows}
    \cup {[up |-> TRUE, failed |-> {f}, hours |-> h,
            queueRows |-> IF f = "queue" THEN <<>> ELSE q,
            stuckRows |-> IF f = "stuck" THEN <<>> ELSE k] :
        f \in OutboxQueries, h \in Lookbacks, q \in QueueRows, k \in StuckRows}
    \cup {[up |-> FALSE, failed |-> {}, hours |-> h, queueRows |-> <<>>, stuckRows |-> <<>>] :
            h \in Lookbacks}

\* token sums of an account in a window; absent when it has no events there
NoUsageInWindow == [present |-> FALSE, tokens |-> 0]

RecentUsages == {NoUsageInWindow} \cup {[present |-> TRUE, tokens |-> t] : t \in {0, 199, 300, 599}}

BaselineUsages == {NoUsageInWindow} \cup {[present |-> TRUE, tokens |-> t] : t \in {0, 100, 200}}

\* the accounts of the join: events in at least one of the two windows
Accounts(org) ==
    {[org |-> org, recent |-> r, baseline |-> b] : r \in RecentUsages, b \in BaselineUsages}
        \ {[org |-> org, recent |-> NoUsageInWindow, baseline |-> NoUsageInWindow]}

\* ORDER BY COALESCE(r.recent_tokens, 0) DESC
orderedByRecent(accounts) ==
    \A i \in 1..(Len(accounts) - 1) : accounts[i].recent.tokens >= accounts[i + 1].recent.tokens

\* spikeThreshold in hundredths: the default 3, and 1, the least the schema admits
SpikeThresholds == {300, 100}

\* the metering table at the time of a call: one or two orgs in the order
\* of the query, or a database that is down
MeteringTables ==
    {[up |-> TRUE, spikeThreshold |-> t, accounts |-> <<a>>] :
        t \in SpikeThresholds, a \in Accounts("org-1")}
    \cup {table \in {[up |-> TRUE, spikeThreshold |-> t, accounts |-> <<a, b>>] :
                        t \in SpikeThresholds, a \in Accounts("org-1"), b \in Accounts("org-2")} :
            orderedByRecent(table.accounts)}
    \cup {[up |-> FALSE, spikeThreshold |-> t, accounts |-> <<>>] : t \in SpikeThresholds}

\* the secret shared with Sentry, and a key of somebody else
SharedSecret == "s3cret"

SignerKeys == {"", SharedSecret, "guess"}

\* the webhook section of the configuration (README, Webhook Server)
WebhookSection(sentrySecret, enabled, categories, maxPerHour) ==
    [enabled |-> TRUE, sentrySecret |-> sentrySecret,
     autoResolve |-> [enabled |-> enabled, categories |-> categories,
                      maxAutoResolvePerHour |-> maxPerHour]]

\* configurations of the triage scenarios: the known bugs and the
\* auto-resolve settings vary
TriageConfigs ==
    {[diagnosisPatterns |-> <<>>, knownBugs |-> bs, services |-> Services, sentry |-> OneProject,
      metering |-> DefaultMetering,
      webhook |-> WebhookSection("from-env", enabled, cs, 2)] :
        bs \in {<<>>, <<StreamLeakBug>>, <<RefundBug>>, <<StreamLeakBug, RefundBug>>},
        enabled \in BOOLEAN, cs \in {<<>>, <<"application_error">>}}

\* configurations of the concurrent scenarios: the secret is written in the
\* configuration or taken from the environment, one auto-resolve per hour
ServerConfigs ==
    {[diagnosisPatterns |-> <<>>, knownBugs |-> <<>>, services |-> Services, sentry |-> OneProject,
      metering |-> DefaultMetering,
      webhook |-> WebhookSection(s, TRUE, <<"application_error">>, 1)] :
        s \in {"from-env", SharedSecret}}

\* process.env with the credentials of the Sentry API
WithSentry == [NoEnv EXCEPT !.SENTRY_AUTH_TOKEN = "sntrys_token", !.SENTRY_ORG = "lucid"]

\* process.env of the tools that call Sentry: the token and the
\* organisation, each set or not
SentryEnvs ==
    {[NoEnv EXCEPT !.SENTRY_AUTH_TOKEN = token, !.SENTRY_ORG = org] :
        token \in {"", "sntrys_token"}, org \in {"", "lucid"}}

\* process.env of the tools that query the metering database
DatabaseEnvs == {NoEnv, [NoEnv EXCEPT !.DATABASE_URL = "postgres://db/metering"]}

\* process.env of the webhook server: SENTRY_WEBHOOK_SECRET set or not
ServerEnvs == {[WithSentry EXCEPT !.SENTRY_WEBHOOK_SECRET = s] : s \in {"", SharedSecret}}

\* a title that no built-in family claims
RefundFailed == <<"R", "e", "f", "u", "n", "d", " ", "f", "a", "i", "l", "e", "d">>

TriageTitles ==
    { <<"b", "o", "o", "m">>, <<"M", "e", "m", "o", "r", "y", " ", "l", "e", "a", "k">>, RefundFailed }

\* culprit of the issue and stack trace of its latest event
TriageLocations ==
    { [culprit |-> <<>>, stacktrace |-> <<>>],
      [culprit |-> <<"L", "e", "a", "k", ".", "t", "s">>, stacktrace |-> <<>>],
      [culprit |-> <<>>, stacktrace |-> << <<"T", "y", "p", "e", "E", "r", "r", "o", "r", ":", " ", "l", "e", "a", "k">> >>] }

\* level and count of the issue: medium (the level missing), critical, high, low
TriageCounters ==
    { [level |-> "", count |-> 50], [level |-> "fatal", count |-> 50],
      [level |-> "error", count |-> 500], [level |-> "warning", count |-> 50] }

\* data.issue of a payload, with the stack trace, the breadcrumbs and the
\* tags of its latest event at Sentry
Issue(id, title, location, counters) ==
    [present |-> TRUE, id |-> id, title |-> title, culprit |-> location.culprit,
     latestStacktrace |-> location.stacktrace,
     latestBreadcrumbs |-> <<[timestamp |-> "t0", category |-> "http", message |-> "GET /"]>>,
     latestTags |-> <<[key |-> "environment", value |-> "prod"], [key |-> "service", value |-> "worker"]>>,
     count |-> counters.count, userCount |-> 2, level |-> counters.level,
     firstSeen |-> Date(1000000), lastSeen |-> InvalidDate, project |-> "api"]

NoIssue ==
    [present |-> FALSE, id |-> "", title |-> <<>>, culprit |-> <<>>, latestStacktrace |-> <<>>,
     latestBreadcrumbs |-> <<>>, latestTags |-> <<>>,
     count |-> 0, userCount |-> 0, level |-> "", firstSeen |-> InvalidDate,
     lastSeen |-> InvalidDate, project |-> ""]

Payload(action, issue) == [action |-> action, issue |-> issue]

NoPayload == Payload("", NoIssue)

\* alerts on issues of every text and severity, a payload of another
\* action and a payload without an issue
TriagePayloads ==
    {Payload("triggered", Issue("42", t, loc, c)) :
        t \in TriageTitles, loc \in TriageLocations, c \in TriageCounters}
    \cup {Payload("resolved", Issue("42", RefundFailed, [culprit |-> <<>>, stacktrace |-> <<>>],
                                     [level |-> "", count |-> 50])),
           Payload("created", NoIssue)}

\* alerts on two issues that the configuration lets resolve, and on a fatal one
ServerPayloads ==
    {Payload("created", Issue(id, RefundFailed, [culprit |-> <<>>, stacktrace |-> <<>>],
                              [level |-> "error", count |-> 50])) : id \in {"42", "43"}}
    \cup {Payload("triggered", Issue("44", RefundFailed, [culprit |-> <<>>, stacktrace |-> <<>>],
                                      [level |-> "fatal", count |-> 50]))}

\* the sentry-hook-signature headers a request on a body may carry: none,
\* the digest under a key, the digest under the shared secret written
\* after 'sha256=', and from a sender without a key a text as long as a
\* digest with a character outside ASCII
SignatureHeaders(rawBody, keys) ==
    (IF "" \in keys THEN {<<>>, <<Latin1Text>>} ELSE {})
    \cup {<<hmacSha256Hex(k, rawBody)>> : k \in keys \ {""}}
    \cup {<<Sha256Prefix, hmacSha256Hex(k, rawBody)>> : k \in keys \cap {SharedSecret}}

\* configurations of the repeated calls: a pattern and a known bug that
\* both match some of the records
CallConfigs ==
    {[diagnosisPatterns |-> ps, knownBugs |-> bs, services |-> Services, sentry |-> OneProject,
      metering |-> DefaultMetering] :
        ps \in {<<>>, <<BillingPattern>>, <<SlowUpstreamPattern, BillingPattern>>},
        bs \in {<<>>, <<RefundBug, StreamLeakBug>>}}

\* records of the repeated calls, with and without breadcrumbs
CallInputs ==
    {[inp EXCEPT !.breadcrumbs = crumbs, !.tags = <<[key |-> "service", value |-> "api"]>>] :
        inp \in {t \in TextInputs :
                    /\ t.title \in {<<"b", "o", "o", "m">>, <<"P", "a", "y", "m", "e", "n", "t", " ", "f", "a", "i", "l", "e", "d">>,
                                    <<"p", "a", "y", "m", "e", "n", "t", " ", "t", "i", "m", "e", "o", "u", "t">>}
                    /\ t.culprit = <<>>},
        crumbs \in {<<>>, <<[timestamp |-> "t0", category |-> "http", message |-> "GET /"]>>}}

\* Date.now() of the repeated calls: within the hour after lastSeen, and later
CallClocks == {10000000, 20000000}

\* the arguments loadConfig is called with: none by the MCP server, the
\* plugin configuration by OpenClaw
RawConfigs ==
    {NoRaw,
     Raw([configPath |-> ""]),
     Raw([configPath |-> RawConfigPath, sentryAuthToken |-> "sntrys_token",
          sentryOrg |-> "lucid", databaseUrl |-> "postgres://openclaw/metering"])}

ConfigPaths == {PackageConfigPath, EnvConfigPath, RawConfigPath}

\* what may be found at each path
FilesAt(path) ==
    CASE path = PackageConfigPath -> {NoFile, File(PackageJsonText), File(BrokenJsonText)}
      [] path = EnvConfigPath -> {NoFile, File(CustomJsonText), File(NullJsonText)}
      [] OTHER -> {NoFile, File(RawJsonText)}

-----------------------------------------------------------------------------
(* State machine *)

NoInput ==
    [title |-> <<>>, culprit |-> <<>>, stacktrace |-> <<>>, count |-> 0, userCount |-> 0,
     level |-> "", breadcrumbs |-> <<>>, tags |-> <<>>, firstSeen |-> InvalidDate,
     lastSeen |-> InvalidDate, project |-> ""]

NoDiagnosis == [category |-> "none"]

NoVerdict == [pattern |-> "none"]

NoRules ==
    [diagnosisPatterns |-> <<>>, knownBugs |-> <<>>, services |-> Services, sentry |-> OneProject,
     metering |-> DefaultMetering]

NoRequest == [traceId |-> "", runId |-> ""]

NoReply == [isError |-> FALSE, text |-> "", data |-> NoCorrelation]

NoDatabase == [up |-> FALSE, failed |-> {}, hours |-> 0, queueRows |-> <<>>, stuckRows |-> <<>>]

NoHealth == [isError |-> FALSE, text |-> "", data |-> [anomalies |-> <<>>]]

NoUsage == [up |-> FALSE, spikeThreshold |-> 0, accounts |-> <<>>]

NoReport == [isError |-> FALSE, text |-> "", data |-> [anomalies |-> <<>>]]

NoDecision == [shouldResolve |-> FALSE, reason |-> <<>>, action |-> "none"]

\* a request slot of the server before its request arrives
NoDelivery ==
    [pc |-> "idle", payload |-> NoPayload, header |-> <<>>, status |-> 0, outcome |-> "",
     diagnosis |-> NoDiagnosis, decision |-> NoDecision]

\* the webhook server is not started
ServerStopped ==
    /\ secret = ""
    /\ wallClock = 0
    /\ limiter = <<>>
    /\ deliveries = <<>>
    /\ resolved = <<>>

NoWebhook ==
    /\ env = NoEnv
    /\ ServerStopped

\* getPgPool was never called
NoPool ==
    /\ pgPool = 0
    /\ pools = 0
    /\ callers = <<>>

NoFiles == [path \in ConfigPaths |-> NoFile]

\* no call of the loader yet
NoLastCall == [op |-> "none", raw |-> NoRaw, threw |-> FALSE, error |-> "", config |-> NotLoaded]

\* the loader module before its first call, no configuration file on disk
NoLoad ==
    /\ cachedConfig = NotLoaded
    /\ allocated = 0
    /\ files = NoFiles
    /\ lastCall = NoLastCall

\* no tool call is in progress
NoToolCall ==
    /\ calls = <<>>
    /\ phase = "idle"
    /\ input = NoInput
    /\ now = 0
    /\ diagnosis = NoDiagnosis
    /\ timestamps = <<>>
    /\ verdict = NoVerdict
    /\ request = NoRequest
    /\ queries = <<>>
    /\ cursor = 0
    /\ fetches = <<>>
    /\ results = <<>>
    /\ reply = NoReply
    /\ database = NoDatabase
    /\ health = NoHealth
    /\ usage = NoUsage
    /\ report = NoReport
    /\ NoLoad

\* nor was buildDiagnosis called: none of its objects is in memory
NoCall == NoToolCall /\ heap = <<>>

Idle ==
    /\ NoCall
    /\ NoWebhook
    /\ NoPool
    /\ lookups = <<>>

\* a call slot of the server without a call
NoLookup == [tool |-> "", awaiting |-> {}, arg |-> 0]

\* the call of a tool whose handler awaits the given promises
Lookup(tool, awaiting, arg) == [tool |-> tool, awaiting |-> awaiting, arg |-> arg]

\* the server with its tools registered: the environment of its process and
\* the tool calls it handles at a time
Serving(environments, concurrent) ==
    /\ NoCall
    /\ env \in environments
    /\ ServerStopped
    /\ NoPool
    /\ lookups = [s \in 1..concurrent |-> NoLookup]

\* the configuration is loaded once, before any tool call
Init == config \in Configs /\ Serving(SentryEnvs, 1)

InitNoRules == config = NoRules /\ Serving(SentryEnvs, 1)

InitSeverity ==
    /\ config \in {NoRules, [NoRules EXCEPT !.sentry.defaultOrg = "lucid"]}
    /\ Serving(SentryEnvs, MaxLookups)

\* diagnose_issue up to its await: the two sentryFetch calls of Promise.all
\* are issued, or they throw before any fetch and the catch returns the error
DiagnoseIssue ==
    /\ phase = "idle"
    /\ \E s \in DOMAIN lookups :
        /\ lookups[s] = NoLookup
        /\ IF sentryFetchError(config, env) # ""
           THEN /\ reply' = err(sentryFetchError(config, env))
                /\ phase' = "replied"
                /\ UNCHANGED lookups
           ELSE /\ lookups' = [lookups EXCEPT ![s] = Lookup("diagnose_issue", {"issue", "latestEvent"}, 0)]
                /\ UNCHANGED <<reply, phase>>
    /\ UNCHANGED <<config, diagnosisVars, request, queries, cursor, fetches, results, outboxVars,
                   usageVars, webhookVars, calls, heap, poolVars, loaderVars>>

\* a sentryFetch call of diagnose_issue settles. A failure rejects
\* Promise.all and the catch returns the error; with both answers, of which
\* inputs holds the issues and their latest events, the handler builds the
\* DiagnosisInput and returns the diagnosis
IssueFetched(inputs) ==
    \E s \in DOMAIN lookups : \E r \in lookups[s].awaiting : \E failure \in {""} \cup SentryFailures :
        /\ lookups[s].tool = "diagnose_issue"
        /\ IF failure # ""
           THEN /\ phase = "idle"
                /\ lookups' = [lookups EXCEPT ![s] = NoLookup]
                /\ reply' = err(failure)
                /\ phase' = "replied"
                /\ UNCHANGED <<input, now, diagnosis>>
           ELSE IF lookups[s].awaiting # {r}
           THEN /\ lookups' = [lookups EXCEPT ![s].awaiting = @ \ {r}]
                /\ UNCHANGED <<input, now, diagnosis, reply, phase>>
           ELSE /\ phase = "idle"
                /\ \E answer \in inputs, clock \in Clocks :
                    /\ input' = diagnosisInputOf(answer, answer.stacktrace, answer.breadcrumbs, answer.tags)
                    /\ now' = clock
                /\ diagnosis' = buildDiagnosis(config, input', now')
                /\ reply' = json(diagnosis')
                /\ lookups' = [lookups EXCEPT ![s] = NoLookup]
                /\ phase' = "replied"
        /\ UNCHANGED <<config, timestamps, verdict, request, queries, cursor, fetches, results,
                       outboxVars, usageVars, webhookVars, calls, heap, poolVars, loaderVars>>

\* sentry_get_issue_events up to its await: the sentryFetch call is issued,
\* or it throws before its fetch and the catch returns the error
AnalyzeEvents ==
    /\ phase = "idle"
    /\ \E s \in DOMAIN lookups :
        /\ lookups[s] = NoLookup
        /\ IF sentryFetchError(config, env) # ""
           THEN /\ reply' = err(sentryFetchError(config, env))
                /\ phase' = "replied"
                /\ UNCHANGED lookups
           ELSE /\ lookups' = [lookups EXCEPT ![s] = Lookup("sentry_get_issue_events", {"events"}, 0)]
                /\ UNCHANGED <<reply, phase>>
    /\ UNCHANGED <<config, diagnosisVars, request, queries, cursor, fetches, results, outboxVars,
                   usageVars, webhookVars, calls, heap, poolVars, loaderVars>>

\* the sentryFetch call of the event listing settles: the catch returns its
\* error, or the handler runs detectTemporalPattern on the timestamps of the
\* events and returns the listing
EventsFetched ==
    \E s \in DOMAIN lookups : \E failure \in {""} \cup SentryFailures :
        /\ lookups[s].tool = "sentry_get_issue_events"
        /\ phase = "idle"
        /\ IF failure # ""
           THEN /\ reply' = err(failure)
                /\ UNCHANGED <<timestamps, verdict>>
           ELSE /\ \E series \in SeriesInputs : timestamps' = series
                /\ verdict' = detectTemporalPattern(timestamps')
                /\ reply' = json([total |-> Len(timestamps'), pattern |-> verdict'])
        /\ lookups' = [lookups EXCEPT ![s] = NoLookup]
        /\ phase' = "replied"
        /\ UNCHANGED <<config, input, now, diagnosis, request, queries, cursor, fetches, results,
                       outboxVars, usageVars, webhookVars, calls, heap, poolVars, loaderVars>>

\* the client has read what the handler returned; nothing of the call is kept
Reply ==
    /\ phase = "replied"
    /\ phase' = "idle"
    /\ input' = NoInput
    /\ now' = 0
    /\ diagnosis' = NoDiagnosis
    /\ timestamps' = <<>>
    /\ verdict' = NoVerdict
    /\ request' = NoRequest
    /\ queries' = <<>>
    /\ cursor' = 0
    /\ fetches' = <<>>
    /\ results' = <<>>
    /\ reply' = NoReply
    /\ database' = NoDatabase
    /\ health' = NoHealth
    /\ usage' = NoUsage
    /\ report' = NoReport
    /\ UNCHANGED <<config, lookups, webhookVars, calls, heap, poolVars, loaderVars>>

Next == DiagnoseIssue \/ IssueFetched(TextInputs) \/ Reply

Spec == Init /\ [][Next]_vars

NextCounters == DiagnoseIssue \/ IssueFetched(CounterInputs) \/ Reply

SpecSeverity == InitSeverity /\ [][NextCounters]_vars

\* a sentryFetch call just made: in flight, or rejected before its fetch
issued(cfg, environment) == IF sentryFetchError(cfg, environment) = "" THEN InFlight ELSE Rejected

\* cross_correlate up to its first await: the usage error, the queries, and
\* the first batch of sentryFetch calls; with no query the result at once
CrossCorrelate ==
    /\ phase = "idle"
    /\ \E req \in Requests :
        /\ request' = req
        /\ IF usageError(req.traceId, req.runId)
           THEN /\ queries' = <<>>
                /\ fetches' = <<>>
                /\ reply' = err("Provide at least one of traceId or runId")
                /\ phase' = "replied"
           ELSE LET qs == buildQueries(config.sentry.projects, req.traceId, req.runId)
                IN /\ queries' = qs
                   /\ fetches' = [q \in 1..Len(qs) |->
                                     IF q \in batch(qs, 0) THEN issued(config, env) ELSE NotStarted]
                   /\ IF qs = <<>>
                      THEN /\ reply' = json(correlate(req.traceId, req.runId, <<>>))
                           /\ phase' = "replied"
                      ELSE /\ reply' = NoReply
                           /\ phase' = "correlating"
    /\ cursor' = 0
    /\ results' = <<>>
    /\ UNCHANGED <<config, lookups, diagnosisVars, outboxVars, usageVars, webhookVars, calls, heap, poolVars, loaderVars>>

\* one sentryFetch call in flight ends: with an issue list, or by throwing
QuerySettles(responses) ==
    /\ phase = "correlating"
    /\ \E q \in DOMAIN fetches :
        /\ fetches[q].state = "inFlight"
        /\ \E outcome \in {Rejected} \cup {Fulfilled(issues) : issues \in responses} :
            fetches' = [fetches EXCEPT ![q] = outcome]
    /\ UNCHANGED <<config, lookups, phase, diagnosisVars, outboxVars, request, queries, cursor, results, reply, usageVars, webhookVars, calls, heap, poolVars, loaderVars>>

\* Promise.all of the batch is settled: its results are pushed, then the next
\* batch is issued, or the result built after the last batch; a rejected
\* promise of the batch would end the call in the outer catch
BatchCompletes ==
    /\ phase = "correlating"
    /\ \A q \in batch(queries, cursor) : fetches[q].state \in {"fulfilled", "rejected"}
    /\ LET promises == [k \in 1..Cardinality(batch(queries, cursor)) |->
                            queryPromise(queries[cursor + k], fetches[cursor + k])]
           pushed == results \o [k \in DOMAIN promises |-> promises[k].value]
           next == cursor + BatchSize
       IN IF \E k \in DOMAIN promises : promises[k].rejected
          THEN /\ reply' = err("sentryFetch failed")
               /\ phase' = "replied"
               /\ UNCHANGED <<results, cursor, fetches>>
          ELSE /\ results' = pushed
               /\ cursor' = next
               /\ IF next < Len(queries)
                  THEN /\ fetches' = [q \in DOMAIN fetches |->
                                         IF q \in batch(queries, next) THEN issued(config, env)
                                         ELSE fetches[q]]
                       /\ UNCHANGED <<reply, phase>>
                  ELSE /\ reply' = json(correlate(request.traceId, request.runId, pushed))
                       /\ phase' = "replied"
                       /\ UNCHANGED fetches
    /\ UNCHANGED <<config, lookups, diagnosisVars, outboxVars, request, queries, usageVars, webhookVars, calls, heap, poolVars, loaderVars>>

\* getPgPool up to its await: the cached pool is returned, or the call
\* throws without DATABASE_URL, or the dynamic import of pg is awaited
getPgPool(pool, environment) ==
    IF pool # 0 THEN [pc |-> "returned", pool |-> pool, error |-> ""]
    ELSE IF environment.DATABASE_URL = ""
    THEN [pc |-> "thrown", pool |-> 0, error |-> "DATABASE_URL env var not set"]
    ELSE [pc |-> "importing", pool |-> 0, error |-> ""]

\* what the handler of a tool awaits after `await getPgPool()`: the import
\* of pg, or with the cached pool the queries it sends
awaitedAfterGetPgPool(pool, environment, sent) ==
    IF getPgPool(pool, environment).pc = "importing" THEN {"import"} ELSE sent

\* the statement of the dead-letter retry
RetryQueries == {"update"}

\* the query of the usage anomaly detection
UsageQueries == {"usage"}

\* the queries a handler sends once it has the pool
queriesOf(tool) ==
    CASE tool = "openmeter_outbox_health" -> OutboxQueries
      [] tool = "openmeter_dead_letter_retry" -> RetryQueries
      [] tool = "openmeter_usage_anomaly" -> UsageQueries

\* openmeter_outbox_health up to its await: getPgPool throws and the catch
\* returns the error, or the import of pg is awaited, or the four queries
\* of Promise.all are sent on the cached pool
OutboxHealth ==
    /\ phase = "idle"
    /\ \E s \in DOMAIN lookups, hours \in Lookbacks :
        /\ lookups[s] = NoLookup
        /\ IF getPgPool(pgPool, env).pc = "thrown"
           THEN /\ database' = [NoDatabase EXCEPT !.hours = hours]
                /\ health' = err(getPgPool(pgPool, env).error)
                /\ phase' = "replied"
                /\ UNCHANGED lookups
           ELSE /\ lookups' = [lookups EXCEPT ![s] =
                        Lookup("openmeter_outbox_health",
                               awaitedAfterGetPgPool(pgPool, env, OutboxQueries), hours)]
                /\ UNCHANGED <<database, health, phase>>
    /\ UNCHANGED <<config, diagnosisVars, correlateVars, usageVars, webhookVars, calls, heap, poolVars,
                   loaderVars>>

\* the import of pg resolved in a tool call: getPgPool constructs the pool,
\* caches and returns it, and the handler sends its queries
PgImported ==
    \E s \in DOMAIN lookups :
        /\ lookups[s].awaiting = {"import"}
        /\ pools' = pools + 1
        /\ pgPool' = pools + 1
        /\ lookups' = [lookups EXCEPT ![s].awaiting = queriesOf(lookups[s].tool)]
        /\ UNCHANGED <<config, phase, diagnosisVars, correlateVars, outboxVars, usageVars,
                       webhookVars, calls, heap, callers, loaderVars>>

\* a query of openmeter_outbox_health settles. A rejection (of this query,
\* or the database is down) rejects Promise.all and the catch returns the
\* error; with the four results the handler analyses the rows it got
OutboxQueried ==
    \E s \in DOMAIN lookups : \E q \in lookups[s].awaiting \ {"import"} : \E rejected \in BOOLEAN :
        /\ lookups[s].tool = "openmeter_outbox_health"
        /\ IF ~rejected /\ lookups[s].awaiting # {q}
           THEN /\ lookups' = [lookups EXCEPT ![s].awaiting = @ \ {q}]
                /\ UNCHANGED <<database, health, phase>>
           ELSE /\ phase = "idle"
                /\ \E db \in Databases :
                    /\ db.hours = lookups[s].arg
                    /\ IF rejected THEN ~db.up \/ db.failed = {q} ELSE db.up /\ db.failed = {}
                    /\ database' = db
                /\ health' = outboxHealth(config, database'.hours, database')
                /\ lookups' = [lookups EXCEPT ![s] = NoLookup]
                /\ phase' = "replied"
        /\ UNCHANGED <<config, diagnosisVars, correlateVars, usageVars, webhookVars, calls, heap,
                       poolVars, loaderVars>>

\* openmeter_dead_letter_retry up to its await, as OutboxHealth: the error
\* of getPgPool, the import of pg, or the UPDATE sent on the cached pool
DeadLetterRetry ==
    /\ phase = "idle"
    /\ \E s \in DOMAIN lookups, maxEvents \in RetryLimits :
        /\ lookups[s] = NoLookup
        /\ IF getPgPool(pgPool, env).pc = "thrown"
           THEN /\ reply' = err(getPgPool(pgPool, env).error)
                /\ phase' = "replied"
                /\ UNCHANGED lookups
           ELSE /\ lookups' = [lookups EXCEPT ![s] =
                        Lookup("openmeter_dead_letter_retry",
                               awaitedAfterGetPgPool(pgPool, env, RetryQueries), maxEvents)]
                /\ UNCHANGED <<reply, phase>>
    /\ UNCHANGED <<config, diagnosisVars, request, queries, cursor, fetches, results, outboxVars,
                   usageVars, webhookVars, calls, heap, poolVars, loaderVars>>

\* the UPDATE of the dead-letter retry settles: the catch returns its error,
\* or the handler reports the rows that were reset, at most maxEvents
RetryQueried ==
    \E s \in DOMAIN lookups : \E rejected \in BOOLEAN :
        /\ lookups[s].tool = "openmeter_dead_letter_retry"
        /\ lookups[s].awaiting = RetryQueries
        /\ phase = "idle"
        /\ IF rejected THEN reply' = err("connect ECONNREFUSED")
           ELSE \E rowCount \in {n \in RetriedCounts : n <= lookups[s].arg} :
                    reply' = json(deadLetterRetry(rowCount))
        /\ lookups' = [lookups EXCEPT ![s] = NoLookup]
        /\ phase' = "replied"
        /\ UNCHANGED <<config, diagnosisVars, request, queries, cursor, fetches, results,
                       outboxVars, usageVars, webhookVars, calls, heap, poolVars, loaderVars>>

\* openmeter_usage_anomaly up to its await, as OutboxHealth: the error of
\* getPgPool, the import of pg, or the query sent on the cached pool
UsageAnomalies ==
    /\ phase = "idle"
    /\ \E s \in DOMAIN lookups, spikeThreshold \in SpikeThresholds :
        /\ lookups[s] = NoLookup
        /\ IF getPgPool(pgPool, env).pc = "thrown"
           THEN /\ usage' = [NoUsage EXCEPT !.spikeThreshold = spikeThreshold]
                /\ report' = err(getPgPool(pgPool, env).error)
                /\ phase' = "replied"
                /\ UNCHANGED lookups
           ELSE /\ lookups' = [lookups EXCEPT ![s] =
                        Lookup("openmeter_usage_anomaly",
                               awaitedAfterGetPgPool(pgPool, env, UsageQueries), spikeThreshold)]
                /\ UNCHANGED <<usage, report, phase>>
    /\ UNCHANGED <<config, diagnosisVars, correlateVars, outboxVars, webhookVars, calls, heap, poolVars,
                   loaderVars>>

\* the query of the usage anomaly detection settles: the catch returns the
\* error of a database that is down, or the handler filters the rows
UsageQueried ==
    \E s \in DOMAIN lookups :
        /\ lookups[s].tool = "openmeter_usage_anomaly"
        /\ lookups[s].awaiting = UsageQueries
        /\ phase = "idle"
        /\ \E table \in MeteringTables :
            /\ table.spikeThreshold = lookups[s].arg
            /\ usage' = table
        /\ report' = usageAnomalies(usage', usage'.spikeThreshold)
        /\ lookups' = [lookups EXCEPT ![s] = NoLookup]
        /\ phase' = "replied"
        /\ UNCHANGED <<config, diagnosisVars, correlateVars, outboxVars, webhookVars, calls, heap,
                       poolVars, loaderVars>>

\* the response of a request, after which its handler is gone
respond(delivery, status, outcome) ==
    [delivery EXCEPT !.pc = "responded", !.status = status, !.outcome = outcome]

\* POST /webhooks/sentry, from the end of the body to the first await: the
\* signature check, whose exception the catch answers with 500, then
\* handleSentryWebhook up to its sentryFetch
Receive(payloads, keys) ==
    \E d \in DOMAIN deliveries, payload \in payloads :
        \E header \in SignatureHeaders(payload, keys) :
            /\ deliveries[d].pc = "idle"
            /\ LET arrived == [deliveries[d] EXCEPT !.payload = payload, !.header = header]
               IN deliveries' = [deliveries EXCEPT ![d] =
                    IF threw(payload, header, secret)
                    THEN respond(arrived, 500, "Internal server error")
                    ELSE IF ~accepted(payload, header, secret)
                    THEN respond(arrived, 401, "Invalid signature")
                    ELSE IF ~payload.issue.present THEN respond(arrived, 200, "skipped")
                    ELSE IF payload.action # "triggered" /\ payload.action # "created"
                    THEN respond(arrived, 200, "skipped")
                    ELSE [arrived EXCEPT !.pc = "fetchingEvent"]]
            /\ UNCHANGED <<config, lookups, phase, diagnosisVars, correlateVars, outboxVars, usageVars,
                           env, secret, wallClock, limiter, resolved, calls, heap, poolVars, loaderVars>>

\* sentryFetch of the latest event settles (a failure leaves the stack
\* trace, the breadcrumbs and the tags empty); buildDiagnosis, shouldAutoResolve and the rate limiter,
\* up to the await of resolveIssue
EventFetched ==
    \E d \in DOMAIN deliveries, fetched \in BOOLEAN :
        /\ deliveries[d].pc = "fetchingEvent"
        /\ LET issue == deliveries[d].payload.issue
               diag == buildDiagnosis(config,
                           diagnosisInputOf(issue,
                               IF fetched THEN issue.latestStacktrace ELSE <<>>,
                               IF fetched THEN issue.latestBreadcrumbs ELSE <<>>,
                               IF fetched THEN issue.latestTags ELSE <<>>),
                           wallClock)
               decision == shouldAutoResolve(config, diag)
               maxPerHour == config.webhook.autoResolve.maxAutoResolvePerHour
               decided == [deliveries[d] EXCEPT !.diagnosis = diag, !.decision = decision]
           IN IF decision.shouldResolve
              THEN /\ limiter' = prune(limiter, wallClock)
                   /\ deliveries' = [deliveries EXCEPT ![d] =
                        IF canResolve(limiter, wallClock, maxPerHour)
                        THEN [decided EXCEPT !.pc = "resolving"]
                        ELSE respond(decided, 200, "triaged")]
              ELSE /\ deliveries' = [deliveries EXCEPT ![d] = respond(decided, 200, "triaged")]
                   /\ UNCHANGED limiter
        /\ UNCHANGED <<config, lookups, phase, diagnosisVars, correlateVars, outboxVars, usageVars,
                       env, secret, wallClock, resolved, calls, heap, poolVars, loaderVars>>

\* resolveIssue settles: the issue is resolved at Sentry and recorded by
\* the rate limiter, or the call failed and the issue is only triaged
ResolveSettles ==
    \E d \in DOMAIN deliveries, succeeded \in BOOLEAN :
        /\ deliveries[d].pc = "resolving"
        /\ LET issueId == deliveries[d].payload.issue.id
               diag == deliveries[d].diagnosis
           IN IF succeeded
              THEN /\ resolved' = Append(resolved, [issueId |-> issueId, severity |-> diag.severity,
                                                    time |-> wallClock])
                   /\ limiter' = record(limiter, issueId, diag.category, wallClock)
                   /\ deliveries' = [deliveries EXCEPT ![d] = respond(@, 200, "auto_resolved")]
              ELSE /\ deliveries' = [deliveries EXCEPT ![d] = respond(@, 200, "triaged")]
                   /\ UNCHANGED <<resolved, limiter>>
        /\ UNCHANGED <<config, lookups, phase, diagnosisVars, correlateVars, outboxVars, usageVars,
                       env, secret, wallClock, calls, heap, poolVars, loaderVars>>

\* the connection of an answered request is closed; the server takes the next
Finish ==
    \E d \in DOMAIN deliveries :
        /\ deliveries[d].pc = "responded"
        /\ deliveries' = [deliveries EXCEPT ![d] = NoDelivery]
        /\ UNCHANGED <<config, lookups, phase, diagnosisVars, correlateVars, outboxVars, usageVars,
                       env, secret, wallClock, limiter, resolved, calls, heap, poolVars, loaderVars>>

\* GET /health: rateLimiter.count prunes the records
Health ==
    /\ limiter' = prune(limiter, wallClock)
    /\ UNCHANGED <<config, lookups, phase, diagnosisVars, correlateVars, outboxVars, usageVars,
                   env, secret, wallClock, deliveries, resolved, calls, heap, poolVars, loaderVars>>

\* time passes
Tick ==
    /\ wallClock < MaxTicks * TickMs
    /\ wallClock' = wallClock + TickMs
    /\ UNCHANGED <<config, lookups, phase, diagnosisVars, correlateVars, outboxVars, usageVars,
                   env, secret, limiter, deliveries, resolved, calls, heap, poolVars, loaderVars>>

\* buildDiagnosis has returned: memory is as the call left it, and the
\* call is kept with its arguments, the number of objects there were when
\* it was made, the object it returned and how that object reads
Returned(inp, clock, inputObject, call) ==
    /\ heap' = call.heap
    /\ input' = inputAt(call.heap, inputObject)
    /\ now' = clock
    /\ diagnosis' = diagnosisAt(call.heap, call.diagnosis)
    /\ config' = configAt(call.heap, ConfigAddress)
    /\ calls' = Append(calls,
           [config |-> configAt(heap, ConfigAddress),
            record |-> inp,
            now |-> clock,
            input |-> inputObject,
            objects |-> inputObject,
            returned |-> call.diagnosis,
            diagnosis |-> diagnosisAt(call.heap, call.diagnosis)])

\* the handler of diagnose_issue from the record on: it builds the record
\* and calls buildDiagnosis with the configuration object and the record
BuildDiagnosis ==
    /\ Len(calls) < MaxCalls
    /\ \E inp \in CallInputs, clock \in CallClocks :
        Returned(inp, clock, Len(heap) + 4,
                 buildDiagnosisAt(withInput(heap, inp), ConfigAddress, Len(heap) + 4, clock))
    /\ UNCHANGED <<phase, lookups, timestamps, verdict, correlateVars, outboxVars, usageVars, webhookVars,
                   poolVars, loaderVars>>

\* a caller before its call, and after getPgPool returned or threw
NoCaller == [pc |-> "idle", pool |-> 0, error |-> ""]

\* a caller calls getPgPool
GetPgPool ==
    \E c \in DOMAIN callers :
        /\ callers[c].pc = "idle"
        /\ callers' = [callers EXCEPT ![c] = getPgPool(pgPool, env)]
        /\ UNCHANGED <<config, lookups, phase, diagnosisVars, correlateVars, outboxVars, usageVars,
                       webhookVars, calls, heap, pgPool, pools, loaderVars>>

\* the import of pg resolved: a pool is constructed, cached and returned
ImportResolved ==
    \E c \in DOMAIN callers :
        /\ callers[c].pc = "importing"
        /\ pools' = pools + 1
        /\ pgPool' = pools + 1
        /\ callers' = [callers EXCEPT ![c] = [pc |-> "returned", pool |-> pools + 1, error |-> ""]]
        /\ UNCHANGED <<config, lookups, phase, diagnosisVars, correlateVars, outboxVars, usageVars,
                       webhookVars, calls, heap, loaderVars>>

\* the tool call of a caller ends; a new one may ask for the pool
CallerDone ==
    \E c \in DOMAIN callers :
        /\ callers[c].pc \in {"returned", "thrown"}
        /\ callers' = [callers EXCEPT ![c] = NoCaller]
        /\ UNCHANGED <<config, lookups, phase, diagnosisVars, correlateVars, outboxVars, usageVars,
                       webhookVars, calls, heap, pgPool, pools, loaderVars>>

\* loadConfig(raw)
LoadConfig ==
    \E raw \in RawConfigs :
        LET call == loadConfig(cachedConfig, raw, files, env, allocated)
        IN  /\ call.created <= MaxObjects
            /\ cachedConfig' = call.cache
            /\ env' = call.env
            /\ allocated' = call.created
            /\ lastCall' = [op |-> "loadConfig", raw |-> raw, threw |-> FALSE, error |-> "",
                            config |-> call.returns]
            /\ UNCHANGED <<config, lookups, phase, diagnosisVars, correlateVars, outboxVars, usageVars,
                           secret, wallClock, limiter, deliveries, resolved, calls, heap, poolVars,
                           files>>

\* getConfig()
GetConfig ==
    LET call == getConfig(cachedConfig)
    IN  /\ lastCall' = [op |-> "getConfig", raw |-> NoRaw, threw |-> call.threw,
                        error |-> call.error, config |-> call.returns]
        /\ UNCHANGED <<config, lookups, phase, diagnosisVars, correlateVars, outboxVars, usageVars,
                       webhookVars, calls, heap, poolVars, cachedConfig, allocated, files>>

\* resetConfig()
ResetConfig ==
    /\ cachedConfig' = resetConfig(cachedConfig)
    /\ lastCall' = [op |-> "resetConfig", raw |-> NoRaw, threw |-> FALSE, error |-> "",
                    config |-> NotLoaded]
    /\ UNCHANGED <<config, lookups, phase, diagnosisVars, correlateVars, outboxVars, usageVars,
                   webhookVars, calls, heap, poolVars, allocated, files>>

\* a configuration file is written, replaced or removed
WriteFile ==
    \E path \in ConfigPaths : \E file \in FilesAt(path) :
        /\ files[path] # file
        /\ files' = [files EXCEPT ![path] = file]
        /\ UNCHANGED <<config, lookups, phase, diagnosisVars, correlateVars, outboxVars, usageVars,
                       webhookVars, calls, heap, poolVars, cachedConfig, allocated, lastCall>>

\* AGENT_CONFIG_PATH is set or unset in the environment of the process
SetConfigPath ==
    \E path \in {"", EnvConfigPath} :
        /\ env.AGENT_CONFIG_PATH # path
        /\ env' = [env EXCEPT !.AGENT_CONFIG_PATH = path]
        /\ UNCHANGED <<config, lookups, phase, diagnosisVars, correlateVars, outboxVars, usageVars,
                       secret, wallClock, limiter, deliveries, resolved, calls, heap, poolVars,
                       loaderVars>>

NextTemporal == AnalyzeEvents \/ EventsFetched \/ Reply

SpecTemporal == InitNoRules /\ [][NextTemporal]_vars

InitFewProjects ==
    /\ config \in {[NoRules EXCEPT !.sentry.projects = ps] : ps \in FewProjects}
    /\ Serving(SentryEnvs, 1)

NextCorrelate == CrossCorrelate \/ QuerySettles(Responses) \/ BatchCompletes \/ Reply

SpecCorrelate == InitFewProjects /\ [][NextCorrelate]_vars

InitManyProjects ==
    /\ config \in {[NoRules EXCEPT !.sentry.projects = ps] : ps \in ManyProjects}
    /\ Serving({WithSentry}, 1)

NextBatches == CrossCorrelate \/ QuerySettles(FewResponses) \/ BatchCompletes \/ Reply

SpecBatches == InitManyProjects /\ [][NextBatches]_vars

InitMetering ==
    /\ config \in {[NoRules EXCEPT !.metering.queueDepthThreshold = t] : t \in QueueDepthThresholds}
    /\ Serving(DatabaseEnvs, 1)

NextOutbox ==
    OutboxHealth \/ DeadLetterRetry \/ PgImported \/ OutboxQueried \/ RetryQueried \/ Reply

SpecOutbox == InitMetering /\ [][NextOutbox]_vars

NextUsage == UsageAnomalies \/ PgImported \/ UsageQueried \/ Reply

\* the process with its tools registered, DATABASE_URL set or not, no
\* configuration loaded yet and callers that have not yet asked for the
\* pool; loadConfig sets DATABASE_URL from its argument where it is unset
InitPool ==
    /\ config = NoRules
    /\ NoCall
    /\ env \in {NoEnv, [NoEnv EXCEPT !.DATABASE_URL = "postgres://db/metering"]}
    /\ ServerStopped
    /\ pgPool = 0
    /\ pools = 0
    /\ callers = [c \in 1..MaxCallers |-> NoCaller]
    /\ lookups = <<>>

NextPool == GetPgPool \/ ImportResolved \/ CallerDone \/ LoadConfig

SpecPool == InitPool /\ [][NextPool]_vars

\* the process before its first loadConfig call
InitLoader == config = NoRules /\ Idle

NextLoader == LoadConfig \/ GetConfig \/ ResetConfig \/ WriteFile \/ SetConfigPath

SpecLoader == InitLoader /\ [][NextLoader]_vars

\* the configuration is loaded and in memory, buildDiagnosis not yet called
InitCalls ==
    /\ config \in CallConfigs
    /\ heap = loaded(config)
    /\ NoToolCall
    /\ NoWebhook
    /\ NoPool
    /\ lookups = <<>>

NextCalls == BuildDiagnosis

SpecCalls == InitCalls /\ [][NextCalls]_vars

\* the webhook server started by startWebhookServer, its rate limiter
\* empty, with the given number of requests it handles at a time
ServerStarted(concurrent) ==
    /\ NoCall
    /\ NoPool
    /\ lookups = <<>>
    /\ secret = serverSecret(config, env)
    /\ wallClock = 0
    /\ limiter = <<>>
    /\ deliveries = [d \in 1..concurrent |-> NoDelivery]
    /\ resolved = <<>>

\* alert after alert, one request at a time, signed by Sentry
InitTriage ==
    /\ config \in TriageConfigs
    /\ env = [WithSentry EXCEPT !.SENTRY_WEBHOOK_SECRET = SharedSecret]
    /\ ServerStarted(1)

NextTriage == Receive(TriagePayloads, {SharedSecret}) \/ EventFetched \/ ResolveSettles \/ Finish

SpecTriage == InitTriage /\ [][NextTriage]_vars

\* requests handled concurrently, from Sentry and from others, while time passes
InitServer ==
    /\ config \in ServerConfigs
    /\ env \in ServerEnvs
    /\ ServerStarted(MaxDeliveries)

NextServer ==
    Receive(ServerPayloads, SignerKeys) \/ EventFetched \/ ResolveSettles \/ Health \/ Tick

SpecWebhook == InitServer /\ [][NextServer]_vars

InitUsage == config = NoRules /\ Serving(DatabaseEnvs, MaxLookups)

SpecUsage == InitUsage /\ [][NextUsage]_vars

-----------------------------------------------------------------------------
(* Properties of buildDiagnosis *)

\* diagnose_issue returned a diagnosis, which the client holds
diagnosed == phase = "replied" /\ diagnosis # NoDiagnosis

\* the lower-cased texts of the record of the last call
normalizedTitle == toLowerCase(input.title)

normalizedCulprit == toLowerCase(input.culprit)

normalizedStack == toLowerCase(join(input.stacktrace, <<"\n">>))

Min(S) == CHOOSE x \in S : \A y \in S : x <= y

Max(S) == CHOOSE x \in S : \A y \in S : x >= y

\* the positions of the operator patterns having a keyword that occurs in the
\* lower-cased title, culprit or stack text
matchingPatterns ==
    LET title == normalizedTitle
        culprit == normalizedCulprit
        stack == normalizedStack
    IN {i \in DOMAIN config.diagnosisPatterns :
           \E k \in DOMAIN config.diagnosisPatterns[i].keywords :
               \/ includes(title, config.diagnosisPatterns[i].keywords[k])
               \/ includes(culprit, config.diagnosisPatterns[i].keywords[k])
               \/ includes(stack, config.diagnosisPatterns[i].keywords[k])}

\* a known bug has a keyword that occurs in the lower-cased title or stack text
keywordOccurs(bug) ==
    LET title == normalizedTitle
        stack == normalizedStack
    IN \E k \in DOMAIN bug.keywords :
           includes(title, bug.keywords[k]) \/ includes(stack, bug.keywords[k])

notKnownBug(suggestion) == suggestion.action # "known_bug"

\* the suggestions of the last diagnosis that are no known_bug entries
baseSuggestions == SelectSeq(diagnosis.suggestions, notKnownBug)

actionsOf(suggestions) == [j \in DOMAIN suggestions |-> suggestions[j].action]

\* C1: whenever an operator pattern matches the record, category, rootCause,
\* relatedPatterns and the suggestions other than known_bug entries are those of
\* the earliest matching pattern, and no built-in family adds anything.
C1_EarliestPatternDecides ==
    (diagnosed /\ matchingPatterns # {}) =>
        LET p == config.diagnosisPatterns[Min(matchingPatterns)]
        IN /\ diagnosis.category = p.category
           /\ diagnosis.rootCause = <<p.rootCause>>
           /\ diagnosis.relatedPatterns = p.relatedPatterns
           /\ baseSuggestions = p.suggestions

\* C2: an operator pattern matches the record exactly when one of its keywords,
\* compared without regard to letter case, occurs in the title, the culprit or
\* the joined stack text.
C2_KeywordCaseIgnored ==
    diagnosed =>
        LET title == normalizedTitle
            culprit == normalizedCulprit
            stack == normalizedStack
        IN \A i \in DOMAIN config.diagnosisPatterns :
               patternMatches(config.diagnosisPatterns[i], title, culprit, stack)
               <=> \E k \in DOMAIN config.diagnosisPatterns[i].keywords :
                       LET kw == toLowerCase(config.diagnosisPatterns[i].keywords[k])
                       IN includes(title, kw) \/ includes(culprit, kw) \/ includes(stack, kw)

\* the known_bug suggestion the claims expect for a known bug
expectedKnownBugEntry(bug) ==
    [action |-> "known_bug", description |-> <<"Known bug: ", bug.title, " - ", bug.fix>>, confidence |-> "high"]

\* C3: whatever decided the category, the result holds one known_bug suggestion
\* of confidence high for each known bug having a keyword in the lower-cased
\* title or stack text, and none for a known bug without such a keyword.
C3_KnownBugsIndependent ==
    diagnosed =>
        LET matching == {i \in DOMAIN config.knownBugs : keywordOccurs(config.knownBugs[i])}
            entries == {j \in DOMAIN diagnosis.suggestions : diagnosis.suggestions[j].action = "known_bug"}
        IN /\ Cardinality(entries) = Cardinality(matching)
           /\ \A i \in matching : \E j \in entries :
                  diagnosis.suggestions[j] = expectedKnownBugEntry(config.knownBugs[i])
           /\ \A j \in entries : \E i \in matching :
                  diagnosis.suggestions[j] = expectedKnownBugEntry(config.knownBugs[i])

\* a built-in family decided the category, one known bug matched and another did not
C3_Witness ==
    /\ diagnosed
    /\ matchingPatterns = {}
    /\ diagnosis.category = "timeout"
    /\ \E i, j \in DOMAIN config.knownBugs :
        keywordOccurs(config.knownBugs[i]) /\ ~keywordOccurs(config.knownBugs[j])
    /\ \E j \in DOMAIN diagnosis.suggestions : diagnosis.suggestions[j].action = "known_bug"

\* C4: the known_bug suggestions come first, in the reverse of the order of the
\* matching known bugs in config.knownBugs, and no known_bug suggestion follows a
\* suggestion of the winning pattern or family.
C4_KnownBugsFirstInReverse ==
    diagnosed =>
        LET matching == SelectSeq(config.knownBugs, keywordOccurs)
            k == Len(matching)
        IN /\ Len(diagnosis.suggestions) >= k
           /\ \A j \in 1..k : diagnosis.suggestions[j] = expectedKnownBugEntry(matching[k + 1 - j])
           /\ \A j \in (k + 1)..Len(diagnosis.suggestions) : diagnosis.suggestions[j].action # "known_bug"

\* two different known bugs matched and suggestions of a pattern or family follow them
C4_Witness ==
    /\ diagnosed
    /\ config.knownBugs = <<StreamLeakBug, RefundBug>>
    /\ keywordOccurs(StreamLeakBug) /\ keywordOccurs(RefundBug)
    /\ Len(diagnosis.suggestions) > 2
    /\ diagnosis.suggestions[1] = expectedKnownBugEntry(RefundBug)
    /\ diagnosis.suggestions[2] = expectedKnownBugEntry(StreamLeakBug)

\* the keyword families in their order of evaluation, with the actions each suggests
BuiltInFamilies ==
    << [category |-> "network_error",
        keywords |-> << <<"f", "e", "t", "c", "h", " ", "f", "a", "i", "l", "e", "d">>, <<"e", "c", "o", "n", "n", "r", "e", "f", "u", "s", "e", "d">>, <<"e", "n", "o", "t", "f", "o", "u", "n", "d">>, <<"e", "c", "o", "n", "n", "r", "e", "s", "e", "t">>, <<"n", "e", "t", "w", "o", "r", "k">> >>,
        actions |-> <<"check_provider", "add_retry", "add_circuit_breaker">>],
       [category |-> "timeout",
        keywords |-> << <<"t", "i", "m", "e", "o", "u", "t">>, <<"a", "b", "o", "r", "t", "e", "r", "r", "o", "r">>, <<"a", "b", "o", "r", "t">>, <<"d", "e", "a", "d", "l", "i", "n", "e">> >>,
        actions |-> <<"use_streaming", "check_pool", "review_timeout">>],
       [category |-> "auth_error",
        keywords |-> << <<"u", "n", "a", "u", "t", "h", "o", "r", "i", "z", "e", "d">>, <<"4", "0", "1">>, <<"4", "0", "3">>, <<"f", "o", "r", "b", "i", "d", "d", "e", "n">>, <<"a", "u", "t", "h">> >>,
        actions |-> <<"rotate_keys", "check_config">>],
       [category |-> "rate_limit",
        keywords |-> << <<"r", "a", "t", "e">>, <<"4", "2", "9">>, <<"q", "u", "o", "t", "a">>, <<"t", "o", "o", " ", "m", "a", "n", "y">> >>,
        actions |-> <<"check_quotas", "add_queuing">>],
       [category |-> "database_error",
        keywords |-> << <<"d", "a", "t", "a", "b", "a", "s", "e">>, <<"p", "o", "s", "t", "g", "r", "e", "s">>, <<"u", "n", "i", "q", "u", "e", " ", "c", "o", "n", "s", "t", "r", "a", "i", "n", "t">>, <<"d", "e", "a", "d", "l", "o", "c", "k">>, <<"c", "o", "n", "n", "e", "c", "t", "i", "o", "n">> >>,
        actions |-> <<"check_db", "check_pool", "check_migrations">>],
       [category |-> "validation_error",
        keywords |-> << <<"v", "a", "l", "i", "d", "a", "t", "i", "o", "n">>, <<"z", "o", "d">>, <<"p", "a", "r", "s", "e">>, <<"s", "c", "h", "e", "m", "a">> >>,
        actions |-> <<"check_schema", "add_error_detail">>],
       [category |-> "memory_leak",
        keywords |-> << <<"h", "e", "a", "p">>, <<"o", "u", "t", " ", "o", "f", " ", "m", "e", "m", "o", "r", "y">>, <<"o", "o", "m">> >>,
        actions |-> <<"check_heap", "check_streams">>] >>

\* the positions of the families having a keyword in the lower-cased title
matchingFamilies ==
    LET title == normalizedTitle
    IN {f \in DOMAIN BuiltInFamilies :
           \E k \in DOMAIN BuiltInFamilies[f].keywords :
               includes(title, BuiltInFamilies[f].keywords[k])}

\* C5: when no operator pattern matches, the category is that of the earliest
\* family, in the order network_error, timeout, auth_error, rate_limit,
\* database_error, validation_error, memory_leak, with a keyword in the title,
\* the suggestions of that one family are added, and when no family matches the
\* category is application_error with the two generic suggestions.
C5_EarliestFamilyDecides ==
    (diagnosed /\ matchingPatterns = {}) =>
        LET families == matchingFamilies
        IN /\ [f \in DOMAIN BuiltInFamilies |-> BuiltInFamilies[f].category]
                = <<"network_error", "timeout", "auth_error", "rate_limit",
                    "database_error", "validation_error", "memory_leak">>
           /\ IF families = {}
              THEN /\ diagnosis.category = "application_error"
                   /\ actionsOf(baseSuggestions) = <<"investigate", "add_context">>
              ELSE /\ diagnosis.category = BuiltInFamilies[Min(families)].category
                   /\ actionsOf(baseSuggestions) = BuiltInFamilies[Min(families)].actions

\* a title with keywords of the first two families, and no operator pattern matching
C5_Witness ==
    /\ diagnosed
    /\ matchingPatterns = {}
    /\ {1, 2} \subseteq matchingFamilies
    /\ diagnosis.category = "network_error"
    /\ Len(baseSuggestions) = 3

-----------------------------------------------------------------------------
(* Properties of the severity ladder *)

\* now - lastSeen < 1 hour, for the record and clock of the last call
recentlySeen == input.lastSeen.valid /\ now - input.lastSeen.ms < 3600000

\* C6: severity is critical if level is fatal or count > 1000 or (count > 100
\* and now - lastSeen < 1 hour); else high if level is error and (count > 100 or
\* userCount > 10); else medium if level is error and count > 10; else low.
\* The comparisons are strict.
C6_SeverityRules ==
    diagnosed =>
        LET critical == input.level = "fatal" \/ input.count > 1000 \/ (input.count > 100 /\ recentlySeen)
            high == input.level = "error" /\ (input.count > 100 \/ input.userCount > 10)
            medium == input.level = "error" /\ input.count > 10
        IN /\ diagnosis.severity = "critical" <=> critical
           /\ diagnosis.severity = "high" <=> (~critical /\ high)
           /\ diagnosis.severity = "medium" <=> (~critical /\ ~high /\ medium)
           /\ diagnosis.severity = "low" <=> (~critical /\ ~high /\ ~medium)

\* the counters sit on the thresholds and trigger none of the rules above low
C6_Witness ==
    /\ diagnosed
    /\ input.level = "error" /\ input.count = 10 /\ input.userCount = 10
    /\ diagnosis.severity = "low"

severityRank(severity) ==
    CASE severity = "low" -> 0
      [] severity = "medium" -> 1
      [] severity = "high" -> 2
      [] severity = "critical" -> 3

\* C7: of two diagnoses with the same level, userCount and recency, the one
\* with the larger count has a severity at least as high: no larger count
\* and no lastSeen of the same recency lowers the severity of the diagnosis
\* returned.
C7_SeverityMonotonicInCount ==
    diagnosed =>
        \A count \in Counts, lastSeen \in LastSeens :
            LET larger == [input EXCEPT !.count = count, !.lastSeen = lastSeen]
            IN (/\ input.count <= count
                /\ recentActivity(now, lastSeen) = recentActivity(now, input.lastSeen))
               => severityRank(diagnosis.severity)
                      <= severityRank(buildDiagnosis(config, larger, now).severity)

\* a warning with count 10 was diagnosed low, and the same record with a
\* count above 1000 is critical
C7_Witness ==
    /\ diagnosed
    /\ input.level = "warning" /\ input.count = 10 /\ ~recentlySeen
    /\ diagnosis.severity = "low"
    /\ buildDiagnosis(config, [input EXCEPT !.count = 1001], now).severity = "critical"

-----------------------------------------------------------------------------
(* Properties of detectTemporalPattern *)

\* the event listing returned a pattern, which the client holds
classified == phase = "replied" /\ verdict # NoVerdict

instants(series) == {series[i].ms : i \in DOMAIN series}

\* every timestamp of the series parses
parsable(series) == \A i \in DOMAIN series : series[i].valid

\* more than 80% of the points at or before earliest + 20% of the span, and
\* a span of more than one hour
burstCriterion(series) ==
    LET earliest == Min(instants(series))
        span == Max(instants(series)) - earliest
        early == {i \in DOMAIN series : 5 * (series[i].ms - earliest) <= span}
    IN 5 * Cardinality(early) > 4 * Len(series) /\ span > 3600000

\* the times of the series of the last call as the code orders them
sortedTimes == sortedTimesOf(timestamps)

\* the burst criterion on the series of the last call: on its instants when
\* every timestamp parses, and else as the code tests it on the ordered times
burstMet ==
    IF parsable(timestamps) THEN burstCriterion(timestamps) ELSE burstTest(sortedTimes)

\* C8: a series meeting the burst criterion is reported burst, whatever the
\* other tests say; otherwise steady if the steady test holds, otherwise
\* regression if the regression test holds, otherwise sporadic.
C8_BurstTestedFirst ==
    (classified /\ Len(timestamps) >= 2) =>
        /\ burstMet => verdict.pattern = "burst"
        /\ (~burstMet /\ steadyTest(sortedTimes)) => verdict.pattern = "steady"
        /\ (~burstMet /\ ~steadyTest(sortedTimes) /\ regressionTest(sortedTimes))
               => verdict.pattern = "regression"
        /\ (~burstMet /\ ~steadyTest(sortedTimes) /\ ~regressionTest(sortedTimes))
               => verdict.pattern = "sporadic"

\* a series meeting the burst and the regression criterion was reported burst
C8_Witness ==
    /\ classified
    /\ Len(timestamps) >= 2
    /\ parsable(timestamps)
    /\ burstCriterion(timestamps)
    /\ regressionTest(sortedTimes)
    /\ verdict.pattern = "burst"

\* C9 as stated: nine events one minute apart followed, after a 2-hour gap, by
\* a tenth event are classified regression.
C9_NineThenGapIsRegression ==
    (classified /\ timestamps = NineThenGap) => verdict.pattern = "regression"

\* C9 amended: nine events one minute apart followed, after a 2-hour gap, by a
\* tenth event are classified burst, although the largest gap exceeds 5 times
\* the average gap: nine of the ten points lie in the first 20% of the span.
C9_NineThenGapIsBurst ==
    (classified /\ timestamps = NineThenGap) =>
        /\ verdict.pattern = "burst"
        /\ 9 * Max({sortedTimes[i].ms - sortedTimes[i + 1].ms : i \in 1..9}) > 5 * (sortedTimes[1].ms - sortedTimes[10].ms)

C9_Witness ==
    /\ classified
    /\ timestamps = NineThenGap
    /\ verdict.pattern = "burst"

\* the timestamps of the series parse, and their instants are distinct and
\* equally spaced
equallySpaced(series) ==
    LET n == Len(series)
        lo == Min(instants(series))
        hi == Max(instants(series))
    IN /\ parsable(series)
       /\ Cardinality(instants(series)) = n
       /\ (hi - lo) % (n - 1) = 0
       /\ instants(series) = {lo + k * ((hi - lo) \div (n - 1)) : k \in 0..(n - 1)}

\* C10: a series of at least five distinct, equally spaced timestamps, in any
\* order, is classified steady.
C10_EquallySpacedIsSteady ==
    (classified /\ Len(timestamps) >= 5 /\ equallySpaced(timestamps)) =>
        verdict.pattern = "steady"

\* ten events one second apart, given out of order, were classified steady
C10_Witness ==
    /\ classified
    /\ timestamps = TenEverySecondInterleaved
    /\ timestamps[1].ms < timestamps[2].ms /\ timestamps[3].ms > timestamps[4].ms
    /\ verdict.pattern = "steady"

\* C11: a list of fewer than two timestamps, empty or of one timestamp of any
\* value, parsable or not, is classified unknown.
C11_FewerThanTwoIsUnknown ==
    (classified /\ Len(timestamps) < 2) => verdict.pattern = "unknown"

\* a single timestamp that does not parse was classified unknown
C11_Witness ==
    /\ classified
    /\ Len(timestamps) = 1
    /\ ~timestamps[1].valid
    /\ verdict.pattern = "unknown"

-----------------------------------------------------------------------------
(* Properties of cross_correlate *)

\* the call returned a correlation result
correlated == phase = "replied" /\ ~reply.isError

\* the issues the queries of the call returned, in query order; a query that
\* failed returned none
returnedIssues == flatten(fetches)

\* the issue ids returned, as the strings that identify them
returnedIds == {String(returnedIssues[i].id) : i \in DOMAIN returnedIssues}

firstOccurrence(id) == Min({i \in DOMAIN returnedIssues : String(returnedIssues[i].id) = id})

\* C12: the timeline holds each distinct issue id once, its entry is the
\* first occurrence of the id in query order, and totalIssues is the number
\* of distinct ids returned.
C12_FirstOccurrenceRetained ==
    correlated =>
        LET timeline == reply.data.timeline
        IN /\ \A id \in returnedIds :
                 /\ Cardinality({k \in DOMAIN timeline : String(timeline[k].id) = id}) = 1
                 /\ \E k \in DOMAIN timeline :
                        timeline[k] = timelineEntry(returnedIssues[firstOccurrence(id)])
           /\ Len(timeline) = Cardinality(returnedIds)
           /\ reply.data.totalIssues = Cardinality(returnedIds)

\* issue 42 came back from the api query and, under another project, from a
\* later query: the timeline holds the entry of project api alone
C12_Witness ==
    /\ correlated
    /\ \E q, r \in DOMAIN fetches :
        /\ q < r
        /\ fetches[q].issues = <<IssueApi42>>
        /\ fetches[r].issues = <<IssueWorker42>>
    /\ reply.data.timeline = <<timelineEntry(IssueApi42)>>

\* the services of the issues of the timeline; an issue without a project
\* has none
timelineServices ==
    {reply.data.timeline[k].project : k \in DOMAIN reply.data.timeline} \ {""}

\* C13: cascadeDetected is true iff the surviving issues belong to at least
\* two distinct services, and affectedServices lists exactly the services of
\* the timeline, each once.
C13_CascadeIffTwoServices ==
    correlated =>
        /\ reply.data.cascadeDetected <=> Cardinality(timelineServices) >= 2
        /\ {reply.data.affectedServices[k] : k \in DOMAIN reply.data.affectedServices} = timelineServices
        /\ Len(reply.data.affectedServices) = Cardinality(timelineServices)

\* three issues survived, one of project api, one of project worker and one
\* without a project: a cascade over two services
C13_Witness ==
    /\ correlated
    /\ reply.data.totalIssues = 3
    /\ \E k \in DOMAIN reply.data.timeline : reply.data.timeline[k].project = ""
    /\ reply.data.cascadeDetected
    /\ reply.data.affectedServices = <<"api", "worker">>

\* C14: the analysis is the cascade text iff cascadeDetected, the isolated
\* text iff exactly one service is affected, the nothing-found text iff
\* totalIssues is 0; exactly one of the three cases applies.
C14_AnalysisCases ==
    correlated =>
        LET cascade == reply.data.cascadeDetected
            isolated == Len(reply.data.affectedServices) = 1
            nothing == reply.data.totalIssues = 0
        IN /\ reply.data.analysis.text = "Cross-service error cascade detected across" <=> cascade
           /\ reply.data.analysis.text = "Errors isolated to" <=> isolated
           /\ reply.data.analysis.text = "No errors found for this trace/run across any project." <=> nothing
           /\ Cardinality({c \in {"cascade", "isolated", "nothing"} :
                              \/ c = "cascade" /\ cascade
                              \/ c = "isolated" /\ isolated
                              \/ c = "nothing" /\ nothing}) = 1

\* the first entry was seen longer ago than the second: both dates parse
\* and the first is the earlier
older(first, second) ==
    /\ ~lastSeenTime(first).nan
    /\ ~lastSeenTime(second).nan
    /\ lastSeenTime(first).ms < lastSeenTime(second).ms

\* C15: of two adjacent timeline entries the earlier one was not seen
\* longer ago than the later one; a timeline whose dates all parse runs
\* from the most recent entry to the oldest.
C15_MostRecentFirst ==
    correlated =>
        /\ \A k \in 1..(Len(reply.data.timeline) - 1) :
               ~older(reply.data.timeline[k], reply.data.timeline[k + 1])
        /\ (\A k \in DOMAIN reply.data.timeline : ~lastSeenTime(reply.data.timeline[k]).nan)
               => \A j, k \in DOMAIN reply.data.timeline :
                      j < k => ~older(reply.data.timeline[j], reply.data.timeline[k])

\* the oldest issue was returned first, and it is the last of a timeline of
\* three entries, after two entries of the same lastSeen
C15_Witness ==
    /\ correlated
    /\ returnedIssues # <<>>
    /\ returnedIssues[1] = IssueWorker42
    /\ Len(reply.data.timeline) = 3
    /\ reply.data.timeline[3] = timelineEntry(IssueWorker42)
    /\ reply.data.timeline[1].lastSeen = reply.data.timeline[2].lastSeen

\* the queries of the call that failed
failedQueries == {q \in DOMAIN fetches : fetches[q].state = "rejected"}

\* the results the call would have had with an empty list from every failed query
failuresAsEmpty ==
    [q \in DOMAIN queries |->
        [project |-> queries[q].project, query |-> queries[q].query,
         issues |-> IF q \in failedQueries THEN <<>> ELSE fetches[q].issues]]

\* C16: a call with an identifier ends with a correlation result whatever
\* queries failed, and the result is the one of the same call with an empty
\* list in place of every failure.
C16_FailedQueryIsEmpty ==
    (phase = "replied" /\ (request.traceId # "" \/ request.runId # "")) =>
        /\ ~reply.isError
        /\ reply.data = correlate(request.traceId, request.runId, failuresAsEmpty)

\* one query failed, another returned an issue, and the issue is reported
C16_Witness ==
    /\ correlated
    /\ failedQueries # {}
    /\ failedQueries # DOMAIN fetches
    /\ reply.data.totalIssues >= 1

\* the queries whose sentryFetch call has been made
started == {q \in DOMAIN fetches : fetches[q].state # "notStarted"}

completed == {q \in DOMAIN fetches : fetches[q].state \in {"fulfilled", "rejected"}}

\* C17: at most 6 queries are in flight, the queries are started six by six
\* in their order, and a query is started only when every query of the
\* batches before its own has completed.
C17_BatchesOfSix ==
    /\ Cardinality(started \ completed) <= 6
    /\ \A q \in started : \A r \in DOMAIN fetches :
           (r - 1) \div 6 < (q - 1) \div 6 => r \in completed

\* the two queries of the second batch are in flight after the six queries
\* of the first batch completed, one of them with a failure
C17_Witness ==
    /\ phase = "correlating"
    /\ Len(queries) = 8
    /\ started \ completed = {7, 8}
    /\ \E q \in 1..6 : fetches[q].state = "rejected"

\* C18: a call without traceId and runId returns an error and issues no
\* query; a call with an identifier whose queries return nothing returns a
\* result, with totalIssues 0, and not an error.
C18_UsageErrorWithoutQuery ==
    /\ (phase # "idle" /\ request.traceId = "" /\ request.runId = "") =>
           /\ phase = "replied"
           /\ reply.isError
           /\ queries = <<>> /\ fetches = <<>>
    /\ (phase = "replied" /\ (request.traceId # "" \/ request.runId # "") /\ returnedIssues = <<>>) =>
           /\ ~reply.isError
           /\ reply.data.totalIssues = 0

\* the call without identifiers ended in the usage error
C18_Witness ==
    /\ phase = "replied"
    /\ request = NoRequest
    /\ reply.isError
    /\ reply.text = "Error: Provide at least one of traceId or runId"
    /\ fetches = <<>>

-----------------------------------------------------------------------------
(* Properties of openmeter_outbox_health *)

\* the call returned a snapshot
analyzed == phase = "replied" /\ health # NoHealth /\ ~health.isError

\* the counters of the call as numbers
pendingCount == parseInt(orZero(firstRow(database.queueRows).pending))

deadLetterCount == parseInt(orZero(firstRow(database.queueRows).dead_letter))

stuckLeases == parseInt(stuckCount(database.stuckRows))

sentCount == parseInt(orZero(firstRow(database.queueRows).sent))

totalCount == parseInt(orZero(firstRow(database.queueRows).total))

\* the four checks in their order, and whether each fires on the counters
CheckLabels == <<"HIGH QUEUE DEPTH", "DEAD LETTERS", "STUCK LEASES", "NO EVENTS SENT">>

fires(label) ==
    CASE label = "HIGH QUEUE DEPTH" -> pendingCount > config.metering.queueDepthThreshold
      [] label = "DEAD LETTERS" -> deadLetterCount > 0
      [] label = "STUCK LEASES" -> stuckLeases > 0
      [] label = "NO EVENTS SENT" -> sentCount = 0 /\ totalCount > 0

anomalyLabels == [k \in DOMAIN health.data.anomalies |-> health.data.anomalies[k].label]

\* C19: the anomalies are the checks that fire on the counters, each judged
\* on its own, in the order of the four checks; healthy is true iff there is
\* none; pending equal to the threshold does not fire; pending 600 over a
\* threshold of 500 with deadLetter 0, stuck 0, sent 10 and total 10 gives one
\* anomaly and healthy false.
C19_AnomaliesAreFiredChecks ==
    analyzed =>
        /\ anomalyLabels = SelectSeq(CheckLabels, fires)
        /\ health.data.healthy <=> health.data.anomalies = <<>>
        /\ pendingCount = config.metering.queueDepthThreshold =>
               \A k \in DOMAIN anomalyLabels : anomalyLabels[k] # "HIGH QUEUE DEPTH"
        /\ (/\ pendingCount = 600 /\ config.metering.queueDepthThreshold = 500
            /\ deadLetterCount = 0 /\ stuckLeases = 0 /\ sentCount = 10 /\ totalCount = 10) =>
               /\ anomalyLabels = <<"HIGH QUEUE DEPTH">>
               /\ ~health.data.healthy

\* the counters of the example were analysed: one anomaly, not healthy
C19_Witness ==
    /\ analyzed
    /\ pendingCount = 600 /\ config.metering.queueDepthThreshold = 500
    /\ deadLetterCount = 0 /\ stuckLeases = 0 /\ sentCount = 10 /\ totalCount = 10
    /\ Len(health.data.anomalies) = 1
    /\ ~health.data.healthy

\* C20: the recommendations are one per anomaly that fired, and the single
\* healthy recommendation when none fired.
C20_OneRecommendationPerAnomaly ==
    analyzed =>
        IF health.data.anomalies = <<>>
        THEN health.data.recommendations = <<"Outbox is healthy - all metrics normal">>
        ELSE Len(health.data.recommendations) = Len(health.data.anomalies)

\* C21: when exactly one of the four aggregate queries of the outbox
\* health call fails while the database is reachable, the call does not end
\* in an error: the failure is absorbed for that query, whose counters read
\* as zero, and a health verdict is still produced from the others.
C21_FailedQueryAbsorbed ==
    (phase = "replied" /\ database.up /\ Cardinality(database.failed) = 1)
        => /\ ~health.isError
           /\ health.data.healthy \in BOOLEAN
           /\ ("queue" \in database.failed => health.data.queue.pending = 0)
           /\ ("stuck" \in database.failed => health.data.queue.stuckLeases = 0)

\* C28: a series of fewer than seven timestamps is never classified as a
\* regression: the longest gap exceeds five times the average gap only with
\* six gaps or more, so the guard on three points never decides, and such a
\* series is unknown, burst, steady or sporadic.
C28_NoRegressionBelowSeven ==
    (phase = "replied" /\ verdict # NoVerdict /\ Len(timestamps) < 7)
        => /\ verdict.pattern # "regression"
           /\ verdict.pattern \in {"unknown", "burst", "steady", "sporadic"}

\* six timestamps were classified, five of them two hours after the first:
\* the longest gap is exactly five times the average, and the series is
\* sporadic
C28_Witness ==
    /\ phase = "replied"
    /\ timestamps = <<Date(0), Date(2 * HourMs), Date(2 * HourMs), Date(2 * HourMs),
                      Date(2 * HourMs), Date(2 * HourMs)>>
    /\ verdict.pattern = "sporadic"

-----------------------------------------------------------------------------
(* openmeter_usage_anomalies *)

\* the call returned its report
detected == phase = "replied" /\ usage.up /\ ~report.isError

\* the ratio recent/baseline of an account is defined
ratioDefined(account) ==
    account.recent.present /\ account.baseline.present /\ account.baseline.tokens > 0

\* the ratio of an account is at least the threshold (given in hundredths)
ratioAtLeast(account, spikeThreshold) ==
    100 * account.recent.tokens >= spikeThreshold * account.baseline.tokens

\* the entries of the report for an org
reportedAs(org) == {i \in 1..Len(report.data.anomalies) : report.data.anomalies[i].org_id = org}

\* C22: an account is reported iff its ratio recent/baseline is defined and
\* at least spikeThreshold, or it has a baseline and no recent usage; it is
\* typed DROP exactly when its recent usage is absent and SPIKE with its
\* ratio otherwise; a zero or absent baseline gives no error, no ratio and
\* no SPIKE.
C22_ReportedIffSpikeOrDrop ==
    detected =>
        \A k \in 1..Len(usage.accounts) :
            LET account == usage.accounts[k]
                spike == ratioDefined(account) /\ ratioAtLeast(account, usage.spikeThreshold)
                drop == account.baseline.present /\ ~account.recent.present
            IN /\ (reportedAs(account.org) # {}) <=> (spike \/ drop)
               /\ \A i \in reportedAs(account.org) :
                    LET type == report.data.anomalies[i].type
                    IN /\ (type.label = "DROP (no recent usage)") <=> ~account.recent.present
                       /\ (type.label = "SPIKE") <=> account.recent.present
                       /\ (type.label = "SPIKE") => ratioDefined(account)
               /\ (~ratioDefined(account)) => report.data.allOrgs[k].token_ratio = Null

-----------------------------------------------------------------------------
(* Webhook server *)

\* the requests whose handler has run buildDiagnosis and shouldAutoResolve
diagnosedDeliveries == {d \in DOMAIN deliveries : deliveries[d].diagnosis # NoDiagnosis}

severe(severity) == severity = "critical" \/ severity = "high"

\* C23: shouldAutoResolve never decides to resolve, nor gives an action
\* other than none, for a diagnosis of severity critical or high, whatever
\* the categories and known bugs; so no issue diagnosed critical or high is
\* resolved by any sequence of deliveries; and with auto-resolve disabled
\* the decision is never to resolve.
C23_NeverResolvesSevere ==
    /\ \A d \in diagnosedDeliveries :
         /\ severe(deliveries[d].diagnosis.severity)
                => /\ ~deliveries[d].decision.shouldResolve
                   /\ deliveries[d].decision.action = "none"
                   /\ deliveries[d].pc # "resolving"
                   /\ deliveries[d].outcome # "auto_resolved"
         /\ ~config.webhook.autoResolve.enabled => ~deliveries[d].decision.shouldResolve
    /\ \A i \in DOMAIN resolved : ~severe(resolved[i].severity)

\* an alert on a critical issue that matches a known bug marked as fixed
\* was handled with auto-resolve enabled: it is triaged, not resolved
C23_Witness ==
    \E d \in diagnosedDeliveries :
        /\ deliveries[d].pc = "responded"
        /\ deliveries[d].diagnosis.severity = "critical"
        /\ hasKnownBugSuggestion(deliveries[d].diagnosis)
        /\ isFixed(config.knownBugs, deliveries[d].diagnosis)
        /\ config.webhook.autoResolve.enabled
        /\ ~deliveries[d].decision.shouldResolve
        /\ deliveries[d].outcome = "triaged"

\* the known bugs of the configuration that buildDiagnosis matched: each
\* left its suggestion in the diagnosis
matchedBugs(diag) ==
    {b \in DOMAIN config.knownBugs :
        \E i \in DOMAIN diag.suggestions : diag.suggestions[i] = knownBugSuggestion(config.knownBugs[b])}

\* C26: with auto-resolve enabled, an issue diagnosed medium or low whose
\* title or stack matched a known bug marked as fixed is resolved, even if
\* its category is not listed; an issue that matched only known bugs that
\* are not fixed is not resolved on the known-bug ground.
C26_FixedKnownBugResolves ==
    \A d \in diagnosedDeliveries :
        LET diag == deliveries[d].diagnosis
            decision == deliveries[d].decision
        IN (config.webhook.autoResolve.enabled /\ ~severe(diag.severity)) =>
            /\ (\E b \in matchedBugs(diag) : config.knownBugs[b].fixed)
                    => decision.shouldResolve /\ decision.action = "resolve"
            /\ (\A b \in matchedBugs(diag) : ~config.knownBugs[b].fixed)
                    => decision.reason # <<"Matches a known bug marked as fixed">>

\* the issues resolved in the hour that ends at the given instant
resolvedInHourUpTo(time) ==
    {resolved[i].issueId :
        i \in {j \in DOMAIN resolved : resolved[j].time > time - HourMs /\ resolved[j].time <= time}}

\* C24: under any interleaving of concurrently handled webhook requests,
\* the number of issues auto-resolved within any one-hour window never
\* exceeds maxAutoResolvePerHour.
C24_RateLimited ==
    \A i \in DOMAIN resolved :
        Cardinality(resolvedInHourUpTo(resolved[i].time))
            <= config.webhook.autoResolve.maxAutoResolvePerHour

\* the signature header of a request is the HMAC-SHA256 of its body under
\* the webhook secret, with or without the 'sha256=' in front
signed(delivery) ==
    replacePrefix(delivery.header) = <<hmacSha256Hex(secret, delivery.payload)>>

\* C25: in every configuration of the webhook server, a request is handed
\* to the handler only if its signature header is the HMAC-SHA256 of the
\* raw body under the webhook secret; a request with a missing or wrong
\* signature is answered 401 and never diagnosed or auto-resolved.
C25_OnlySignedRequestsHandled ==
    \A d \in DOMAIN deliveries :
        (deliveries[d].pc # "idle" /\ ~signed(deliveries[d]))
            => /\ deliveries[d].pc = "responded"
               /\ deliveries[d].status = 401
               /\ deliveries[d].diagnosis = NoDiagnosis

-----------------------------------------------------------------------------
(* buildDiagnosis call after call *)

\* C27: buildDiagnosis shares no mutable state between calls: after any
\* sequence of calls the configuration (the lists of every pattern and the
\* known-bug list) and the input records are as they were, each call
\* returns suggestions and relatedPatterns lists built by itself, and two
\* calls with the same record, configuration and clock return equal
\* diagnoses. Every call is passed the one configuration object; the lists
\* are read in memory as the calls made so far have left it.
C27_NoSharedState ==
    /\ \A i \in DOMAIN calls :
         \* the configuration, read when call i started and read now, is
         \* the configuration read before the first call
         /\ calls[i].config = calls[1].config
         /\ configAt(heap, ConfigAddress) = calls[1].config
         \* the record of call i is as its caller built it
         /\ inputAt(heap, calls[i].input) = calls[i].record
         \* the two lists call i returned are no object that existed when
         \* it was called, and are two arrays
         /\ calls[i].returned.suggestions > calls[i].objects
         /\ calls[i].returned.relatedPatterns > calls[i].objects
         /\ calls[i].returned.suggestions # calls[i].returned.relatedPatterns
         \* what call i returned reads now as it read at its return
         /\ diagnosisAt(heap, calls[i].returned) = calls[i].diagnosis
    /\ \A i, j \in DOMAIN calls :
         (calls[i].record = calls[j].record /\ calls[i].now = calls[j].now)
            => calls[i].diagnosis = calls[j].diagnosis

\* the same record, with breadcrumbs, was diagnosed twice at the same
\* clock; a pattern of the configuration and a known bug matched it, and
\* each call returned the entries in two arrays of its own
C27_Witness ==
    /\ Len(calls) = 2
    /\ calls[1].record = calls[2].record
    /\ calls[1].now = calls[2].now
    /\ calls[2].record.breadcrumbs # <<>>
    /\ calls[2].returned.breadcrumbs = calls[2].input - 2
    /\ calls[2].diagnosis.suggestions[1].action = "known_bug"
    /\ calls[2].diagnosis.relatedPatterns = <<"Card declined", "Webhook replay">>
    /\ calls[2].returned.suggestions # calls[1].returned.suggestions
    /\ heap[calls[1].returned.suggestions] = heap[calls[2].returned.suggestions]

-----------------------------------------------------------------------------
(* getPgPool *)

\* the callers that hold a pool
holders == {c \in DOMAIN callers : callers[c].pc = "returned"}

\* C29: getPgPool creates at most one pool per process under any
\* interleaving of concurrent callers, also when two calls start before the
\* import of the first has resolved; every caller receives the same
\* instance; a call without DATABASE_URL fails and caches nothing.
C29_OnePoolPerProcess ==
    /\ pools <= 1
    /\ \A c, d \in holders : callers[c].pool = callers[d].pool
    /\ \A c \in holders : callers[c].pool = pgPool
    /\ \A c \in DOMAIN callers :
         callers[c].pc = "thrown" => (callers[c].pool = 0 /\ (pools = 0 => pgPool = 0))

-----------------------------------------------------------------------------
(* loadConfig, getConfig, resetConfig *)

\* the call handed a configuration to its caller
handedOut(call) == call.op \in {"loadConfig", "getConfig"} /\ ~call.threw

\* after the call no configuration is loaded: none was loaded yet, the cache
\* was reset, or getConfig found none
unloaded(call) == call.op \in {"none", "resetConfig"} \/ (call.op = "getConfig" /\ call.threw)

\* C30: the configuration is cached. Once a configuration was handed out,
\* every later loadConfig call returns that same object, whatever its
\* argument and whatever happened to the environment and the files since,
\* until resetConfig is called; the first loadConfig after a reset merges the
\* defaults and the files as they are at that call; getConfig throws whenever
\* no configuration is loaded, before the first load and after a reset.
C30_ConfigCached ==
    [][/\ (handedOut(lastCall) /\ lastCall'.op = "loadConfig") =>
             lastCall'.config = lastCall.config
       /\ (unloaded(lastCall) /\ lastCall'.op = "loadConfig") =>
             /\ ~lastCall'.threw
             /\ ~lastCall'.config.isNull
             /\ lastCall'.config.value = merged(lastCall'.raw, files, env, allocated).config.value
       /\ (unloaded(lastCall) /\ lastCall'.op = "getConfig") =>
             /\ lastCall'.threw
             /\ lastCall'.error = ConfigNotLoaded
       /\ unloaded(lastCall) => cachedConfig = NotLoaded]_vars

\* a loadConfig call was answered from the cache: its argument names a
\* readable file and a database the environment lacks, and neither shows
C30_Witness ==
    /\ lastCall.op = "loadConfig"
    /\ has(lastCall.raw, "databaseUrl")
    /\ env.DATABASE_URL = ""
    /\ truthy(tryLoadJson(files, customPath(lastCall.raw, env)))
    /\ lastCall.config = cachedConfig
    /\ lastCall.config.value = DEFAULT_CONFIG

====
